---- MODULE Spec2Model ----
(***************************************************************************)
(* A model of the game-server-management supervisor:                       *)
(*   - gsm-instance: Instance::pid / stop / start, the fallback shutdown   *)
(*     by fuzzy process discovery (process.rs, shutdown.rs);               *)
(*   - gsm-monitor: the ranked, short-circuiting rule evaluation and the   *)
(*     log tailing loop with its truncation check;                         *)
(*   - the apps' scheduled jobs and CLI commands around the instance lock. *)
(*   - gsm-monitor: the two monitor threads of an instance;                *)
(*   - gsm-cron: register_job and the loops of the scheduled jobs;         *)
(*   - gsm-instance: the compatibility layer and command of start, and     *)
(*     the subprocess of install and update.                               *)
(* Each part has its own specification over the shared variables.          *)
(***************************************************************************)
EXTENDS Integers, Sequences, FiniteSets, Bags, TLC

VARIABLES
    procs,      \* the OS process table
    pidFile,    \* <workingDir>/instance.pid: its text, or NoFile
    pc,         \* where the caller of the instance operations is
    ret,        \* what the last instance operation returned
    kills,      \* the signal calls of the last stop()
    inRestart,  \* restart() is between its stop() and its return
    rlog,       \* the operations restart() invoked, in order, when the
                \* last operation called was a restart()
    rules,      \* LogRules.rules: the Vec<LogRule>, in registration order
    line,       \* the line process_rules was last called with
    snap,       \* the rules that call's get_rules() copied
    fired,      \* the rules whose action that call invoked, in order
    calls,      \* the rules whose matcher that call invoked, in order
    disk,       \* the bytes of the monitored log file
    wpart,      \* the line whose terminator the writer still owes (0: none)
    nextId,     \* the number of the next line the writer writes
    truncs,     \* how often the log file was recreated
    mpc,        \* where Monitor::run is: "start", "tail" or "returned"
    rdPos,      \* the offset of the reader's file handle
    rdBuf,      \* the bytes in the BufReader not yet handed out
    reads,      \* what read_line returned for each evaluated line, in order
    mlog,       \* the last event Monitor::run logged
    rdStale,    \* the reader's handle is of a file no longer at the path
    oldDisk,    \* the bytes of that file
    lock,       \* per OS process, the holder of its Mutex<Instance> (0: free)
    tasks,      \* the tokio tasks the scheduled jobs spawned, each with what
                \* the operation it last waited for returned
    cpc,        \* where the separate `stop` command line invocation is
    opLog,      \* the instance operations the jobs' tasks began, in order
    manifest,   \* steamapps/appmanifest_<app_id>.acf: its text, or NoFile
    appinfo,    \* the appinfo file (STEAM_APPINFO_PATH): its text, or NoFile
    uret,       \* what the last update check returned
    rw,         \* the RwLock of LogRules.rules: its writer and readers
    apc,        \* per thread that calls add_rule, where it is in the call
    pend,       \* per such thread, the rule it is adding
    epc,        \* where the monitor thread is in process_rules
    given,      \* the arguments of the add_rule calls, in the order of push
    logfiles,   \* per monitored log file, whether a file is at its path
    logmons,    \* per monitored log file, its monitor thread
    process,    \* the supervisor process of the monitors: "running" or not
    reg,        \* the register_job calls made, in order
    rlogged,    \* the number of error! lines the scheduler has logged
    now,        \* the time (Utc::now), in ticks
    loops,      \* per job, the task spawn_scheduled_job spawned
    fires,      \* the invocations of the jobs' actions, in order
    acts,       \* per job, the tasks its action spawned that wait to run
    busy,       \* the job whose task blocks a worker thread, and until when
    workers,    \* the number of worker threads of the tokio runtime
    env,        \* what the host has installed (PATH, compatibilitytools.d)
    lret        \* what the last of start, install and update returned, with
                \* the command it built and whether it spawned a process

instVars == <<procs, pidFile, pc, ret, kills, inRestart, rlog>>

restartVars == <<inRestart, rlog>>

ruleVars == <<rules, line, snap, fired, calls>>

monVars == <<disk, wpart, nextId, truncs, mpc, rdPos, rdBuf, reads, mlog,
            rdStale, oldDisk>>

handleVars == <<rdStale, oldDisk>>

lockVars == <<lock, tasks, cpc, opLog>>

updVars == <<manifest, appinfo, uret>>

rwVars == <<rw, apc, pend, epc, given>>

twoVars == <<logfiles, logmons, process>>

regVars == <<reg, rlogged>>

cronVars == <<now, loops, fires, acts, busy, workers>>

cmdVars == <<env, lret>>

laterVars == <<twoVars, regVars, cronVars, cmdVars>>

vars == <<procs, pidFile, pc, ret, kills, inRestart, rlog, rules, line, snap, fired, calls,
          disk, wpart, nextId, truncs, mpc, rdPos, rdBuf, reads, mlog,
          rdStale, oldDisk,
          lock, tasks, cpc, opLog, manifest, appinfo, uret,
          rw, apc, pend, epc, given,
          logfiles, logmons, process, reg, rlogged, now, loops, fires, acts, busy, workers,
          env, lret>>

\* What an action of one part leaves alone: the variables of the other parts.
exceptInst == <<ruleVars, monVars, lockVars, updVars, rwVars, laterVars>>

exceptRules == <<instVars, monVars, lockVars, updVars, rwVars, laterVars>>

exceptMon == <<instVars, ruleVars, lockVars, updVars, rwVars, laterVars>>

exceptLock == <<instVars, ruleVars, monVars, updVars, rwVars, laterVars>>

exceptUpd == <<instVars, ruleVars, monVars, lockVars, rwVars, laterVars>>

\* The threads of RwSpec act on the rules and on their lock.
exceptRw == <<instVars, monVars, lockVars, updVars, laterVars>>

(***************************************************************************)
(* Bounds and program constants                                            *)
(***************************************************************************)

\* Process ids of the modelled process table are 1..MaxPid.
MaxPid == 3

\* i32::MAX, the width of the integer Instance::pid parses (parse::<i32>).
I32Max == 2147483647

I32Min == -I32Max - 1

\* The similarity threshold 0.75 of find_processes, in thousandths.
SimThreshold == 750

Pids == 1..MaxPid

\* The supervising process itself (the process that executes stop()).
SelfPid == MaxPid

\* Jaro-Winkler scores (thousandths) a process name can have against the
\* target name: clearly below, exactly at, and just above the threshold.
SimLevels == {SimThreshold - 250, SimThreshold, SimThreshold + 1}

NoProc == [sim |-> -1, child |-> FALSE, intr |-> FALSE]

NoFile == <<"<absent>">>

(***************************************************************************)
(* Text of the PID record: a sequence of characters                        *)
(***************************************************************************)

Digits == <<"0", "1", "2", "3", "4", "5", "6", "7", "8", "9">>

DigitChar(d) == Digits[d + 1]

IsDigit(c) == \E i \in 1..Len(Digits) : Digits[i] = c

DigitVal(c) == (CHOOSE i \in 1..Len(Digits) : Digits[i] = c) - 1

IsSpace(c) == c \in {" ", "\n", "\t"}

\* A byte that is no valid UTF-8: fs::read_to_string fails on it.
BadByte == "<0xFF>"

TwoPow31Text == <<"2", "1", "4", "7", "4", "8", "3", "6", "4", "8">>

I32MaxText == <<"2", "1", "4", "7", "4", "8", "3", "6", "4", "7">>

\* The contents a PID record is given by whoever writes it (the supervisor
\* itself never writes one).
PidContents ==
    {<<DigitChar(p)>> : p \in Pids}
    \cup {<<" ", DigitChar(1), "\n">>, <<"+", DigitChar(1)>>}
    \cup {<<"0">>, <<"-", "1">>, <<"-", DigitChar(MaxPid)>>}
    \cup {<<>>, <<"x">>, <<"1", "x">>, <<"-">>, <<BadByte>>}
    \cup {TwoPow31Text, I32MaxText}

(***************************************************************************)
(* Instance::pid: read_to_string, trim, parse::<i32>                       *)
(***************************************************************************)

RECURSIVE TrimStart(_)
TrimStart(s) ==
    IF s # <<>> /\ IsSpace(Head(s)) THEN TrimStart(Tail(s)) ELSE s

RECURSIVE TrimEnd(_)
TrimEnd(s) ==
    IF s # <<>> /\ IsSpace(s[Len(s)])
    THEN TrimEnd(SubSeq(s, 1, Len(s) - 1))
    ELSE s

Trim(s) == TrimEnd(TrimStart(s))

ParseErr == [ok |-> FALSE, val |-> 0]

\* The digit loop of i32::from_str: checked_mul/checked_add for a positive
\* number, checked_mul/checked_sub for a negative one, an error on any
\* character that is no digit and on leaving the range of i32.
RECURSIVE ParseDigits(_, _, _)
ParseDigits(s, acc, positive) ==
    IF s = <<>> THEN [ok |-> TRUE, val |-> acc]
    ELSE IF ~IsDigit(Head(s)) THEN ParseErr
    ELSE LET d == DigitVal(Head(s)) IN
         IF positive
         THEN IF acc > (I32Max - d) \div 10
              THEN ParseErr
              ELSE ParseDigits(Tail(s), acc * 10 + d, TRUE)
         ELSE IF acc < (I32Min + d + 9) \div 10
              THEN ParseErr
              ELSE ParseDigits(Tail(s), acc * 10 - d, FALSE)

\* str::parse::<i32>: an optional sign, then at least one digit.
ParseI32(s) ==
    IF s = <<>> THEN ParseErr
    ELSE IF Head(s) \in {"+", "-"} /\ Len(s) = 1 THEN ParseErr
    ELSE IF Head(s) = "+" THEN ParseDigits(Tail(s), 0, TRUE)
    ELSE IF Head(s) = "-" THEN ParseDigits(Tail(s), 0, FALSE)
    ELSE ParseDigits(s, 0, TRUE)

IsUtf8(s) == \A i \in 1..Len(s) : s[i] # BadByte

\* Instance::pid on a PID record f: Ok(pid), or the error it maps to.
PidOf(f) ==
    IF f = NoFile THEN [ok |-> FALSE, err |-> "Unknown", pid |-> 0]
    ELSE IF ~IsUtf8(f) THEN [ok |-> FALSE, err |-> "IoError", pid |-> 0]
    ELSE LET r == ParseI32(Trim(f)) IN
         IF r.ok THEN [ok |-> TRUE, err |-> "none", pid |-> r.val]
         ELSE [ok |-> FALSE, err |-> "ParseError", pid |-> 0]

(***************************************************************************)
(* The process table, signal delivery and fuzzy discovery                  *)
(***************************************************************************)

Alive(t, p) == t[p] # NoProc

\* The processes kill(2) addresses: one process for a positive pid, the
\* caller's process group for 0 (the supervisor and the children it spawned),
\* every other process for -1, the process group -pid otherwise (a process
\* the supervisor did not spawn leads its own group).
KillTargets(t, pid) ==
    IF pid > 0 THEN {p \in Pids : p = pid /\ Alive(t, p)}
    ELSE IF pid = 0 \/ pid = -SelfPid
         THEN {p \in Pids : Alive(t, p) /\ (p = SelfPid \/ t[p].child)}
    ELSE IF pid = -1 THEN {p \in Pids : Alive(t, p) /\ p # SelfPid}
    ELSE {p \in Pids : p = -pid /\ Alive(t, p) /\ ~t[p].child}

Deliver(t, S) ==
    [p \in Pids |-> IF p \in S THEN [t[p] EXCEPT !.intr = TRUE] ELSE t[p]]

\* find_processes with the filter `>= 0.75` in place of `> 0.75`.
find_processes_AtLeast(t) ==
    {p \in Pids : Alive(t, p) /\ t[p].sim >= SimThreshold}

\* ServerProcess::find_processes: the running processes whose score against
\* the target name is strictly above the threshold.
find_processes(t) == {p \in Pids : Alive(t, p) /\ t[p].sim > SimThreshold}

\* A check that finds nothing running whatever the process table holds.
are_processes_running_Never(t) == FALSE

are_processes_running(t) == find_processes(t) # {}

KillCall(n) == [call |-> "kill", pid |-> n]

KillWithCall(n) == [call |-> "kill_with", pid |-> n]

\* What the last operation returned: entry is the PID record stop() found,
\* child the process start() spawned (0: none).
Result(op, status, entry, child) ==
    [op |-> op, status |-> status, entry |-> entry, child |-> child]

(***************************************************************************)
(* Instance operations, executed by one caller                             *)
(***************************************************************************)

\* stop() with the result of fs::remove_file dropped instead of returned.
StopByPid_RemoveErrorDropped(pid) ==
    /\ kills' = SetToBag({KillCall(pid)})
    /\ pc' = pc
    /\ IF KillTargets(procs, pid) = {}
       THEN /\ ret' = Result("stop", "SignalError", pidFile, 0)
            /\ UNCHANGED <<procs, pidFile>>
       ELSE /\ procs' = Deliver(procs, KillTargets(procs, pid))
            /\ ret' = Result("stop", "Ok", pidFile, 0)
            /\ \E removed \in BOOLEAN :
                 pidFile' = IF removed THEN NoFile ELSE pidFile

\* stop() with fs::remove_file before signal::kill.
StopByPid_RemoveBeforeKill(pid) ==
    /\ kills' = SetToBag({KillCall(pid)})
    /\ pc' = pc
    /\ pidFile' = NoFile
    /\ IF KillTargets(procs, pid) = {}
       THEN /\ ret' = Result("stop", "SignalError", pidFile, 0)
            /\ UNCHANGED procs
       ELSE /\ procs' = Deliver(procs, KillTargets(procs, pid))
            /\ ret' = Result("stop", "Ok", pidFile, 0)

\* Instance::stop with a PID record pid() accepts: signal::kill, then
\* fs::remove_file; each `?` returns its error.
StopByPid(pid) ==
    /\ kills' = SetToBag({KillCall(pid)})
    /\ pc' = pc
    /\ IF KillTargets(procs, pid) = {}
       THEN /\ ret' = Result("stop", "SignalError", pidFile, 0)
            /\ UNCHANGED <<procs, pidFile>>
       ELSE /\ procs' = Deliver(procs, KillTargets(procs, pid))
            /\ \E removed \in BOOLEAN :
                 IF removed
                 THEN /\ pidFile' = NoFile
                      /\ ret' = Result("stop", "Ok", pidFile, 0)
                 ELSE /\ pidFile' = pidFile
                      /\ ret' = Result("stop", "IoError", pidFile, 0)

\* Instance::stop when pid() returned any Err: shutdown::blocking_shutdown,
\* whose send_interrupt panics when find_processes is empty and otherwise
\* interrupts every match (send_interrupt_to_pid) before the polling loop.
StopByDiscovery ==
    /\ pidFile' = pidFile
    /\ IF find_processes(procs) = {}
       THEN /\ pc' = "panicked"
            /\ kills' = EmptyBag
            /\ ret' = Result("stop", "panic", pidFile, 0)
            /\ procs' = procs
       ELSE /\ pc' = "polling"
            /\ kills' = SetToBag({KillWithCall(p) : p \in find_processes(procs)})
            /\ ret' = Result("stop", "running", pidFile, 0)
            /\ procs' = Deliver(procs, find_processes(procs))

\* The body of Instance::stop: match self.pid().
StopBody ==
    IF PidOf(pidFile).ok
    THEN StopByPid(PidOf(pidFile).pid)
    ELSE StopByDiscovery

Stop ==
    /\ pc = "idle"
    /\ ~inRestart
    /\ StopBody
    /\ inRestart' = FALSE
    /\ rlog' = <<>>
    /\ UNCHANGED exceptInst

\* One round of blocking_shutdown's loop: return once no match is running,
\* otherwise sleep and look again.
Poll ==
    /\ pc = "polling"
    /\ IF are_processes_running(procs)
       THEN UNCHANGED <<pc, ret>>
       ELSE /\ pc' = "idle"
            /\ ret' = Result("stop", "Ok", ret.entry, 0)
    /\ UNCHANGED <<procs, pidFile, kills>>
    /\ UNCHANGED restartVars
    /\ UNCHANGED exceptInst

\* start_daemonized with the PID record written as soon as cmd.spawn() has
\* forked process p.
StartRecord_WrittenAtFork(f, p) == <<DigitChar(p)>>

\* The PID record after start_daemonized's cmd.spawn() forked process p:
\* nothing in start() writes, changes or removes the record.
StartRecord(f, p) == f

\* The body of Instance::start -> start_daemonized: create the log files,
\* build the command, spawn it, daemonize. A failed spawn leaves no process
\* behind (the forked process p could not exec and is gone); a failed
\* daemonize leaves the spawned child running.
StartBody ==
    /\ \E step \in {"create_log_files", "launch_server", "spawn", "daemonize", "ok"} :
         IF step \in {"create_log_files", "launch_server"}
         THEN /\ ret' = Result("start", "CommandExecutionError", NoFile, 0)
              /\ procs' = procs
              /\ pidFile' = pidFile
         ELSE \E p \in Pids, s \in SimLevels :
                /\ ~Alive(procs, p)
                /\ pidFile' = StartRecord(pidFile, p)
                /\ IF step = "spawn"
                   THEN /\ procs' = procs
                        /\ ret' = Result("start", "CommandExecutionError", NoFile, 0)
                   ELSE /\ procs' = [procs EXCEPT ![p] = [sim |-> s, child |-> TRUE, intr |-> FALSE]]
                        /\ ret' = IF step = "ok"
                                  THEN Result("start", "Ok", NoFile, p)
                                  ELSE Result("start", "CommandExecutionError", NoFile, p)
    /\ UNCHANGED <<pc, kills>>

Start ==
    /\ pc = "idle"
    /\ ~inRestart
    /\ StartBody
    /\ inRestart' = FALSE
    /\ rlog' = <<>>
    /\ UNCHANGED exceptInst

\* restart() with `let _ = self.stop();` in place of `self.stop()?;`.
Continues_Always(status) == TRUE

\* The `?` behind self.stop(): restart() goes on only when stop() returned Ok.
Continues(status) == status = "Ok"

\* Instance::restart up to the return of its stop(): an Err is returned at
\* once; in the fallback path stop() is still polling after this step.
Restart ==
    /\ pc = "idle"
    /\ ~inRestart
    /\ StopBody
    /\ rlog' = <<"stop">>
    /\ inRestart' = (ret'.status = "running" \/ (pc' = "idle" /\ Continues(ret'.status)))
    /\ UNCHANGED exceptInst

\* Instance::restart behind its stop(): self.start()?, then return.
RestartStart ==
    /\ pc = "idle"
    /\ inRestart
    /\ ret.op = "stop"
    /\ Continues(ret.status)
    /\ StartBody
    /\ rlog' = Append(rlog, "start")
    /\ inRestart' = FALSE
    /\ UNCHANGED exceptInst

\* An interrupted process exits; when it is the supervisor, it is gone.
ProcExit ==
    \E p \in Pids :
      /\ Alive(procs, p)
      /\ procs[p].intr
      /\ procs' = [procs EXCEPT ![p] = NoProc]
      /\ pc' = IF p = SelfPid THEN "exited" ELSE pc
      /\ UNCHANGED <<pidFile, ret, kills>>
      /\ UNCHANGED restartVars
      /\ UNCHANGED exceptInst

\* A supervisor that has executed no instance operation yet.
InstIdle ==
    /\ procs = [p \in Pids |-> IF p = SelfPid
                                THEN [sim |-> SimThreshold, child |-> FALSE, intr |-> FALSE]
                                ELSE NoProc]
    /\ pidFile = NoFile
    /\ pc = "idle"
    /\ ret = Result("none", "none", NoFile, 0)
    /\ kills = EmptyBag
    /\ inRestart = FALSE
    /\ rlog = <<>>

\* LogRules::new(): no rule, no line evaluated.
RulesIdle ==
    /\ rules = <<>>
    /\ line = ""
    /\ snap = <<>>
    /\ fired = <<>>
    /\ calls = <<>>

\* No monitor thread started, an empty log file.
MonIdle ==
    /\ disk = <<>>
    /\ wpart = 0
    /\ nextId = 1
    /\ truncs = 0
    /\ mpc = "start"
    /\ rdPos = 0
    /\ rdBuf = <<>>
    /\ reads = <<>>
    /\ mlog = "none"
    /\ rdStale = FALSE
    /\ oldDisk = <<>>

\* At most MaxTasks firings of the scheduled jobs are followed.
MaxTasks == 3

TaskIds == 1..MaxTasks

\* The holder id of the `stop` command in the mutex of its own process.
CliTask == MaxTasks + 1

NoTask == [kind |-> "none", pc |-> "none", res |-> "none"]

\* main.rs line 86 in each of the two processes: a fresh, free mutex; no job
\* has fired, the `stop` command has not reached its lock.
LockIdle ==
    /\ lock = [p \in {"monitor", "cli"} |-> 0]
    /\ tasks = [t \in TaskIds |-> NoTask]
    /\ cpc = "wait"
    /\ opLog = <<>>

\* No update check made; the files are named in UpdSpec.
UpdIdle ==
    /\ manifest = NoFile
    /\ appinfo = NoFile
    /\ uret = [op |-> "none", status |-> "none", avail |-> FALSE,
               current_build_id |-> <<>>, latest_build_id |-> <<>>]

\* The threads that call add_rule.
Adders == {"main", "other"}

NoPending == [matcher |-> {}, stop |-> FALSE, ranking |-> <<>>, rank |-> 0, slot |-> 0]

\* The lock is free, no thread is inside add_rule or process_rules.
RwIdle ==
    /\ rw = [writer |-> FALSE, readers |-> 0]
    /\ apc = [a \in Adders |-> "idle"]
    /\ pend = [a \in Adders |-> NoPending]
    /\ epc = "idle"
    /\ given = <<>>

\* The two log files start_instance_log_monitor watches, in the order it
\* spawns their threads.
LogFiles == <<"server.log", "server.err">>

LogFileSet == {LogFiles[i] : i \in 1..Len(LogFiles)}

NoMonitor == [pc |-> "unspawned", log |-> "none", evals |-> 0]

\* start_instance_log_monitor has not been called; no log file exists.
TwoIdle ==
    /\ logfiles = [f \in LogFileSet |-> FALSE]
    /\ logmons = [f \in LogFileSet |-> NoMonitor]
    /\ process = "running"

\* No register_job call made.
RegIdle ==
    /\ reg = <<>>
    /\ rlogged = 0

\* The jobs main registers.
Jobs == {"auto-update", "scheduled-restart"}

NoLoop == [pc |-> "none", sched |-> [period |-> 1, phase |-> 0], last |-> 0,
           due |-> 0, reached |-> 0, wake |-> 0]

NotBusy == [by |-> "none", until |-> 0]

\* No job loop spawned.
CronIdle ==
    /\ now = 0
    /\ loops = [j \in Jobs |-> NoLoop]
    /\ fires = <<>>
    /\ acts = [j \in Jobs |-> 0]
    /\ busy = NotBusy
    /\ workers = 1

\* A host with no compatibility layer installed.
NoEnv == [umu_run |-> FALSE, umu_launcher |-> FALSE, tools |-> <<{}, {}>>,
          usr_proton |-> FALSE, wine64 |-> FALSE, wine |-> FALSE]

\* A path: the glob pattern it matched (0: none, it was found through PATH
\* or is used as given) and its name.
PathOf(dir, name) == [dir |-> dir, name |-> name]

NoPath == PathOf(0, <<>>)

NoCompat == [kind |-> "None", path |-> NoPath]

NoLaunch == [op |-> "none", status |-> "none", force_windows |-> FALSE,
             compat |-> NoCompat, program |-> NoPath, args |-> <<>>,
             spawned |-> FALSE, outcome |-> "none"]

\* No start, install or update made.
CmdIdle ==
    /\ env = NoEnv
    /\ lret = NoLaunch

LaterIdle == TwoIdle /\ RegIdle /\ CronIdle /\ CmdIdle

EarlierIdle == InstIdle /\ RulesIdle /\ MonIdle /\ LockIdle /\ UpdIdle /\ RwIdle

Init ==
    /\ LaterIdle
    /\ RulesIdle
    /\ MonIdle
    /\ LockIdle
    /\ UpdIdle
    /\ RwIdle
    /\ procs \in [Pids -> {NoProc} \cup [sim : SimLevels, child : {FALSE}, intr : {FALSE}]]
    /\ Alive(procs, SelfPid)
    /\ pidFile \in {NoFile} \cup PidContents
    /\ pc = "idle"
    /\ ret = Result("none", "none", NoFile, 0)
    /\ kills = EmptyBag
    /\ inRestart = FALSE
    /\ rlog = <<>>

Next == Stop \/ Poll \/ Start \/ Restart \/ RestartStart \/ ProcExit

Spec == Init /\ [][Next]_vars

(***************************************************************************)
(* Claims about Instance::stop and Instance::start                         *)
(***************************************************************************)

\* The text is an optional "+" and then digits, not all of them zero: a
\* positive integer, whatever its size.
IsPositiveIntegerText(f) ==
    /\ f # NoFile
    /\ LET t == Trim(f)
           b == IF t # <<>> /\ Head(t) = "+" THEN Tail(t) ELSE t
       IN /\ b # <<>>
          /\ \A i \in 1..Len(b) : IsDigit(b[i])
          /\ \E i \in 1..Len(b) : b[i] # "0"

\* The text is no integer at all: not an optional sign followed by digits.
IsNoIntegerText(f) ==
    /\ f # NoFile
    /\ LET t == Trim(f)
           b == IF t # <<>> /\ Head(t) \in {"+", "-"} THEN Tail(t) ELSE t
       IN b = <<>> \/ \E i \in 1..Len(b) : ~IsDigit(b[i])

RECURSIVE DecimalText(_)
DecimalText(n) ==
    IF n < 10 THEN <<DigitChar(n)>>
    ELSE Append(DecimalText(n \div 10), DigitChar(n % 10))

\* The digits of a positive integer text, without sign and leading zeros.
RECURSIVE StripZeros(_)
StripZeros(b) ==
    IF Len(b) > 1 /\ Head(b) = "0" THEN StripZeros(Tail(b)) ELSE b

DigitsOf(f) ==
    LET t == Trim(f) IN StripZeros(IF Head(t) = "+" THEN Tail(t) ELSE t)

\* C1 as stated: for every PID record whose content is a positive integer p,
\* stop() sends exactly one interrupt, addressed to process p and to no other
\* process, and when stop() returned Ok the PID record no longer exists.
C1_Original ==
    (ret.op = "stop" /\ IsPositiveIntegerText(ret.entry)) =>
        /\ BagCardinality(kills) = 1
        /\ \A k \in BagToSet(kills) :
             k.call = "kill" /\ k.pid > 0 /\ DecimalText(k.pid) = DigitsOf(ret.entry)
        /\ (ret.status = "Ok" => pidFile = NoFile)

\* C1 amended: for every PID record whose content is a positive integer p
\* that fits a signed 32-bit integer, a step of stop() makes exactly one
\* signal call, kill(p), changes no process other than p, returns Ok or a
\* typed signal or I/O error, and has removed the PID record when it
\* returns Ok.
C1_StopByPidRecord ==
    [][(Stop /\ IsPositiveIntegerText(pidFile) /\ ParseI32(Trim(pidFile)).ok) =>
        /\ BagCardinality(kills') = 1
        /\ \A k \in BagToSet(kills') :
             k.call = "kill" /\ k.pid > 0 /\ DecimalText(k.pid) = DigitsOf(pidFile)
        /\ \A q \in Pids : DecimalText(q) # DigitsOf(pidFile) => procs'[q] = procs[q]
        /\ ret'.status \in {"Ok", "SignalError", "IoError"}
        /\ pc' = "idle"
        /\ (ret'.status = "Ok" => pidFile' = NoFile)]_vars

\* C1 witness: stop() found the record " 1\n", interrupted process 1 alone
\* and removed the record.
C1_Witness ==
    /\ ret.op = "stop" /\ ret.status = "Ok"
    /\ ret.entry = <<" ", "1", "\n">>
    /\ kills = SetToBag({KillCall(1)})
    /\ procs[1].intr
    /\ pidFile = NoFile

\* C2 as stated: after start() returned Ok, the PID record exists and holds
\* the process id of the server process this start() spawned.
C2_Original ==
    (ret.op = "start" /\ ret.status = "Ok") =>
        /\ pidFile # NoFile
        /\ PidOf(pidFile).ok
        /\ PidOf(pidFile).pid = ret.child

C8_Original ==
    [][(Stop /\ pidFile = NoFile
             /\ \A p \in Pids : Alive(procs, p) => procs[p].sim <= SimThreshold) =>
        /\ ret'.status = "ProcessError"
        /\ pc' = "idle"]_vars

\* C9 as stated: when the PID record exists but its content is no integer,
\* stop() returns a typed parse error, sends no signal and does not fall
\* back to fuzzy process discovery.
C9_Original ==
    [][(Stop /\ IsUtf8(pidFile) /\ IsNoIntegerText(pidFile)) =>
        /\ ret'.status = "ParseError"
        /\ kills' = EmptyBag
        /\ procs' = procs
        /\ pc' = "idle"]_vars

\* C10 as stated: stop() never delivers a signal to a process id that is not
\* positive.
C10_Original ==
    \A k \in BagToSet(kills) : k.pid > 0

\* The PID record f names a process that is not running in table t.
StaleRecord(f, t) ==
    /\ PidOf(f).ok
    /\ PidOf(f).pid > 0
    /\ IF PidOf(f).pid \in Pids THEN ~Alive(t, PidOf(f).pid) ELSE TRUE

C13_RestartStopThenStart ==
    [][/\ (rlog' # rlog /\ rlog' \notin {<<>>, <<"stop">>}) =>
            /\ rlog = <<"stop">>
            /\ rlog' = <<"stop", "start">>
            /\ inRestart
            /\ ret.op = "stop" /\ ret.status = "Ok" /\ pc = "idle"
            /\ ret'.op = "start"
       /\ (Restart /\ ret'.status \in {"SignalError", "IoError"}) =>
            /\ ~inRestart'
            /\ rlog' = <<"stop">>
       /\ (inRestart' /\ pc' = "idle") => (ret'.op = "stop" /\ ret'.status = "Ok")]_vars

\* C13 witness: a restart() whose stop() signalled the recorded process and
\* whose start() then spawned a new one.
C13_Witness ==
    /\ rlog = <<"stop", "start">>
    /\ ~inRestart
    /\ ret.op = "start" /\ ret.status = "Ok"
    /\ \E k \in BagToSet(kills) : k.call = "kill"
    /\ pidFile = NoFile

(***************************************************************************)
(* gsm-monitor: LogRules and Monitor::process_rules                        *)
(***************************************************************************)

\* rules.rs DEFAULT_STOP_INT.
DEFAULT_STOP_INT == 99999

\* At most MaxRules rules are registered.
MaxRules == 3

\* The lines a matcher is asked about.
Lines == {"a", "b"}

\* A matcher is the set of lines it accepts.
Matchers == {{"a"}, {"a", "b"}}

\* default_ranking with the count subtracted: a later rule ranks in front.
default_ranking_NewestFirst(current_count) == 0 - current_count - DEFAULT_STOP_INT

\* fn default_ranking
default_ranking(current_count) == current_count - DEFAULT_STOP_INT

\* Option<i32>: <<>> is None, <<r>> is Some(r).
RankingOptions == {<<>>, <<default_ranking(1)>>, <<0>>}

\* LogRules::add_rule: push a rule whose ranking is the given one, or
\* default_ranking(rules.len()) when none is given.
add_rule(rs, matcher, stop, ranking) ==
    Append(rs, [matcher |-> matcher,
                stop |-> stop,
                ranking |-> IF ranking = <<>>
                            THEN default_ranking(Len(rs))
                            ELSE ranking[1]])

\* Insert registration index i into a sequence of indices that is sorted by
\* ranking, behind every index whose ranking is not greater (a stable sort).
RECURSIVE InsertByRanking(_, _, _)
InsertByRanking(rs, sorted, i) ==
    IF sorted = <<>> THEN <<i>>
    ELSE IF rs[Head(sorted)].ranking <= rs[i].ranking
         THEN <<Head(sorted)>> \o InsertByRanking(rs, Tail(sorted), i)
         ELSE <<i>> \o sorted

RECURSIVE SortByRanking(_, _)
SortByRanking(rs, n) ==
    IF n = 0 THEN <<>>
    ELSE InsertByRanking(rs, SortByRanking(rs, n - 1), n)

\* LogRules::get_rules: a copy of the rules, sort_by_key(ranking), given as
\* the registration indices in evaluation order.
get_rules(rs) == SortByRanking(rs, Len(rs))

\* process_rules with scan placed before filter: a stop rule ends the chain
\* whether or not it accepts the line.
RECURSIVE ScanRules_ScanBeforeFilter(_, _, _, _, _, _)
ScanRules_ScanBeforeFilter(rs, order, l, stop_flag, kept, asked) ==
    IF order = <<>> \/ stop_flag THEN [fired |-> kept, calls |-> asked]
    ELSE LET i == Head(order) IN
         ScanRules_ScanBeforeFilter(rs, Tail(order), l, rs[i].stop,
             IF l \in rs[i].matcher THEN Append(kept, i) ELSE kept,
             Append(asked, i))

\* The iterator chain of process_rules, rule by rule: filter invokes the
\* matcher; scan ends the chain at the first accepted rule that follows an
\* accepted stop rule, and passes every other accepted rule on.
RECURSIVE ScanRules(_, _, _, _, _, _)
ScanRules(rs, order, l, stop_flag, kept, asked) ==
    IF order = <<>> THEN [fired |-> kept, calls |-> asked]
    ELSE LET i == Head(order) IN
         IF l \notin rs[i].matcher
         THEN ScanRules(rs, Tail(order), l, stop_flag, kept, Append(asked, i))
         ELSE IF stop_flag
              THEN [fired |-> kept, calls |-> Append(asked, i)]
              ELSE ScanRules(rs, Tail(order), l, rs[i].stop,
                             Append(kept, i), Append(asked, i))

\* Monitor::process_rules: the actions invoked for a line, in order, and
\* the matchers invoked.
process_rules(rs, l) == ScanRules(rs, get_rules(rs), l, FALSE, <<>>, <<>>)

AddRule ==
    /\ Len(rules) < MaxRules
    /\ \E m \in Matchers, st \in BOOLEAN, rk \in RankingOptions :
         rules' = add_rule(rules, m, st, rk)
    /\ UNCHANGED <<line, snap, fired, calls>>
    /\ UNCHANGED exceptRules

ProcessLine ==
    /\ \E l \in Lines :
         /\ line' = l
         /\ snap' = rules
         /\ fired' = process_rules(rules, l).fired
         /\ calls' = process_rules(rules, l).calls
    /\ UNCHANGED rules
    /\ UNCHANGED exceptRules

RulesInit == RulesIdle /\ InstIdle /\ MonIdle /\ LockIdle /\ UpdIdle /\ RwIdle /\ LaterIdle

RulesNext == AddRule \/ ProcessLine

RulesSpec == RulesInit /\ [][RulesNext]_vars

\* In the evaluated copy, rule i comes before rule j: a smaller ranking, or
\* the same ranking and registered earlier.
Before(i, j) ==
    \/ snap[i].ranking < snap[j].ranking
    \/ snap[i].ranking = snap[j].ranking /\ i < j

Accepting == {i \in 1..Len(snap) : line \in snap[i].matcher}

\* The accepting stop rules that no accepting stop rule precedes.
FirstStop == {i \in Accepting : snap[i].stop
                /\ \A j \in Accepting : snap[j].stop => (j = i \/ Before(i, j))}

\* C3: for every line, the actions invoked are exactly those of the rules
\* whose matcher accepts the line, in ascending ranking order, up to and
\* including the first accepting rule whose stop flag is true; a stop rule
\* that does not accept the line ends nothing.
C3_ActionsUpToFirstStop ==
    line \in Lines =>
        /\ \A i \in 1..Len(snap) :
             (\E k \in 1..Len(fired) : fired[k] = i)
               <=> (i \in Accepting /\ \A s \in FirstStop : s = i \/ Before(i, s))
        /\ \A k, m \in 1..Len(fired) : k < m => Before(fired[k], fired[m])

\* C3 witness: three rules A(stop=false), B(stop=true), C(stop=false), ranked
\* in that order and all accepting the line: A and B fired, C did not.
C3_Witness ==
    /\ Len(snap) >= 3 /\ line \in Lines
    /\ \E a, b, c \in 1..Len(snap) :
         /\ {a, b, c} \subseteq Accepting
         /\ Before(a, b) /\ Before(b, c)
         /\ ~snap[a].stop /\ snap[b].stop /\ ~snap[c].stop
         /\ fired = <<a, b>>

(***************************************************************************)
(* gsm-monitor: Monitor::run, the tailing loop                             *)
(***************************************************************************)

\* The writer writes at most MaxLines lines.
MaxLines == 3

\* The log file is recreated at most MaxTruncs times.
MaxTruncs == 2

\* A line is one text byte and its terminator: line i is <<i, -i>>.
TextByte(i) == i

Newline(i) == -i

IsNewline(b) == b < 0

\* The index of the first terminator in a byte sequence, 0 when it has none.
FirstNewline(bs) ==
    IF \E k \in 1..Len(bs) : IsNewline(bs[k])
    THEN CHOOSE k \in 1..Len(bs) :
           IsNewline(bs[k]) /\ \A j \in 1..(k - 1) : ~IsNewline(bs[j])
    ELSE 0

\* The bytes of the file the reader's handle is of: the file at the path,
\* or the file that was at the path when the handle was opened.
HandleFile == IF rdStale THEN oldDisk ELSE disk

\* The bytes of that file behind offset pos.
FileFrom(pos) ==
    IF pos < Len(HandleFile) THEN SubSeq(HandleFile, pos + 1, Len(HandleFile)) ELSE <<>>

\* The server process writes a whole line to its log.
WriteLine ==
    /\ wpart = 0
    /\ nextId <= MaxLines
    /\ disk' = disk \o <<TextByte(nextId), Newline(nextId)>>
    /\ nextId' = nextId + 1
    /\ UNCHANGED <<wpart, truncs, mpc, rdPos, rdBuf, reads, mlog>>
    /\ UNCHANGED handleVars
    /\ UNCHANGED exceptMon

\* The server process writes the text of a line; its terminator follows.
WritePart ==
    /\ wpart = 0
    /\ nextId <= MaxLines
    /\ disk' = Append(disk, TextByte(nextId))
    /\ wpart' = nextId
    /\ nextId' = nextId + 1
    /\ UNCHANGED <<truncs, mpc, rdPos, rdBuf, reads, mlog>>
    /\ UNCHANGED handleVars
    /\ UNCHANGED exceptMon

WriteRest ==
    /\ wpart # 0
    /\ disk' = Append(disk, Newline(wpart))
    /\ wpart' = 0
    /\ UNCHANGED <<nextId, truncs, mpc, rdPos, rdBuf, reads, mlog>>
    /\ UNCHANGED handleVars
    /\ UNCHANGED exceptMon

\* startup.rs create_log_files / launcher.rs launch_server: File::create on
\* the log path empties the file; the server that is started writes anew.
Truncate ==
    /\ truncs < MaxTruncs
    /\ disk' = <<>>
    /\ wpart' = 0
    /\ truncs' = truncs + 1
    /\ UNCHANGED <<nextId, mpc, rdPos, rdBuf, reads, mlog>>
    /\ UNCHANGED handleVars
    /\ UNCHANGED exceptMon

\* Monitor::run up to its loop: File::open, BufReader::new, seek to the end;
\* a failure is logged and run returns.
MonitorOpen ==
    /\ mpc = "start"
    /\ \E opened \in BOOLEAN :
         IF opened
         THEN /\ mpc' = "tail"
              /\ rdPos' = Len(disk)
              /\ rdBuf' = <<>>
              /\ mlog' = mlog
         ELSE /\ mpc' = "returned"
              /\ mlog' = "open_failed"
              /\ UNCHANGED <<rdPos, rdBuf>>
    /\ UNCHANGED handleVars
    /\ UNCHANGED <<disk, wpart, nextId, truncs, reads>>
    /\ UNCHANGED exceptMon

\* The truncation check with `<=` in place of `<`.
Truncated_OrEqual(len, current_pos) == len <= current_pos

\* The truncation check of the loop: metadata.len() < current_pos.
Truncated(len, current_pos) == len < current_pos

\* read_line returned Ok(0): when the file of the handle
\* (reader.get_ref().metadata()) is shorter than the reader's offset,
\* File::open the path again and read from its start; a failed open is
\* logged and the old reader kept. Then sleep.
AtEndOfFile ==
    /\ reads' = reads
    /\ IF Truncated(Len(HandleFile), rdPos - Len(rdBuf))
       THEN \E opened \in BOOLEAN :
              IF opened
              THEN /\ rdPos' = 0
                   /\ rdBuf' = <<>>
                   /\ mlog' = "reopened"
                   /\ rdStale' = FALSE
                   /\ oldDisk' = <<>>
              ELSE /\ mlog' = "reopen_failed"
                   /\ UNCHANGED <<rdPos, rdBuf, rdStale, oldDisk>>
       ELSE UNCHANGED <<rdPos, rdBuf, mlog, rdStale, oldDisk>>

\* read_line returned the bytes got: process_rules(line.trim_end()).
GotLine(got, rest, pos) ==
    /\ reads' = Append(reads, got)
    /\ rdBuf' = rest
    /\ rdPos' = pos
    /\ mlog' = mlog
    /\ UNCHANGED handleVars

\* One round of the loop. read_line hands out the buffered bytes up to the
\* first terminator; without one it reads on from the file at the handle's
\* offset, and returns at a terminator or at the end of the file.
MonitorRead ==
    /\ mpc = "tail"
    /\ IF FirstNewline(rdBuf) # 0
       THEN GotLine(SubSeq(rdBuf, 1, FirstNewline(rdBuf)),
                    SubSeq(rdBuf, FirstNewline(rdBuf) + 1, Len(rdBuf)),
                    rdPos)
       ELSE LET data == rdBuf \o FileFrom(rdPos)
                pos == IF rdPos < Len(HandleFile) THEN Len(HandleFile) ELSE rdPos
                n == FirstNewline(data)
            IN IF data = <<>> THEN AtEndOfFile
               ELSE IF n # 0
                    THEN GotLine(SubSeq(data, 1, n), SubSeq(data, n + 1, Len(data)), pos)
                    ELSE GotLine(data, <<>>, pos)
    /\ UNCHANGED <<disk, wpart, nextId, truncs, mpc>>
    /\ UNCHANGED exceptMon

MonInit == MonIdle /\ InstIdle /\ RulesIdle /\ LockIdle /\ UpdIdle /\ RwIdle /\ LaterIdle

MonNext ==
    WriteLine \/ WritePart \/ WriteRest \/ Truncate \/ MonitorOpen \/ MonitorRead

MonSpec == MonInit /\ [][MonNext]_vars

\* The evaluated bytes, in the order of their evaluation.
RECURSIVE Flatten(_)
Flatten(ss) == IF ss = <<>> THEN <<>> ELSE Head(ss) \o Flatten(Tail(ss))

\* The place of a byte in the order of writing.
WriteOrder(b) == IF IsNewline(b) THEN 2 * (-b) + 1 ELSE 2 * b

CanLock_Always(p) == TRUE

\* instance.lock().await in process p goes through once p's mutex is free.
CanLock(p) == lock[p] = 0

LogOp(t, op) == Append(opLog, [task |-> t, op |-> op])

\* A job's closure runs at an occurrence of its schedule: tokio::spawn of a
\* task, which first waits for the lock.
Fire ==
    \E t \in TaskIds, k \in {"auto-update", "scheduled-restart"} :
      /\ tasks[t] = NoTask
      /\ \A u \in TaskIds : u < t => tasks[u] # NoTask
      /\ tasks' = [tasks EXCEPT ![t] = [kind |-> k, pc |-> "wait", res |-> "none"]]
      /\ UNCHANGED <<lock, cpc, opLog>>
      /\ UNCHANGED exceptLock

\* The task gets the lock: the auto-update task goes on to update_available(),
\* the scheduled-restart task to restart(), which begins with stop().
TaskLock ==
    \E t \in TaskIds :
      /\ tasks[t].pc = "wait"
      /\ CanLock("monitor")
      /\ lock' = [lock EXCEPT !["monitor"] = t]
      /\ LET op == IF tasks[t].kind = "auto-update" THEN "update_available" ELSE "stop"
         IN /\ tasks' = [tasks EXCEPT ![t].pc = op]
            /\ opLog' = LogOp(t, op)
      /\ UNCHANGED cpc
      /\ UNCHANGED exceptLock

\* What an operation returned: update_available() a bool, the others a
\* Result.
Returned(op, ok) ==
    IF op = "update_available"
    THEN IF ok THEN "true" ELSE "false"
    ELSE IF ok THEN "Ok" ELSE "Err"

\* The operation of task t returned r and the task ends, dropping the guard.
\* What start() returns is only logged by the closures: no state keeps it.
TaskDone(t, r) ==
    /\ tasks' = [tasks EXCEPT ![t].pc = "done",
                              ![t].res = IF tasks[t].pc = "start" THEN @ ELSE r]
    /\ lock' = [lock EXCEPT !["monitor"] = 0]
    /\ opLog' = opLog

\* The operation of task t returned r and the task goes on to op.
TaskGoOn(t, r, op) ==
    /\ tasks' = [tasks EXCEPT ![t].pc = op, ![t].res = r]
    /\ opLog' = LogOp(t, op)
    /\ lock' = lock

\* An auto-update closure that goes on whatever an operation returned.
AutoUpdateNext_IgnoreResult(op, ok) ==
    CASE op = "update_available" -> "stop"
      [] op = "stop" -> "update"
      [] op = "update" -> "start"
      [] OTHER -> "done"

\* The body of the auto-update task: what follows an operation, by what it
\* returned. `if inst.update_available()`, then `if let Err(e) = .. { return }`
\* behind stop() and update(); nothing follows start().
AutoUpdateNext(op, ok) ==
    CASE op = "update_available" /\ ok -> "stop"
      [] op = "stop" /\ ok -> "update"
      [] op = "update" /\ ok -> "start"
      [] OTHER -> "done"

\* The auto-update task: update_available() returned; stop(), update() and
\* start() follow one another while each returns Ok.
UpdateStep ==
    \E t \in TaskIds, ok \in BOOLEAN :
      /\ tasks[t].kind = "auto-update"
      /\ tasks[t].pc \in {"update_available", "stop", "update", "start"}
      /\ LET op == tasks[t].pc
             nxt == AutoUpdateNext(op, ok)
         IN IF nxt = "done"
            THEN TaskDone(t, Returned(op, ok))
            ELSE TaskGoOn(t, Returned(op, ok), nxt)
      /\ UNCHANGED cpc
      /\ UNCHANGED exceptLock

\* The scheduled-restart task: restart() is stop()?, then start()?.
RestartStep ==
    \E t \in TaskIds, ok \in BOOLEAN :
      /\ tasks[t].kind = "scheduled-restart"
      /\ \/ tasks[t].pc = "stop"
            /\ IF ok THEN TaskGoOn(t, "Ok", "start") ELSE TaskDone(t, "Err")
         \/ tasks[t].pc = "start" /\ TaskDone(t, Returned("start", ok))
      /\ UNCHANGED cpc
      /\ UNCHANGED exceptLock

\* Commands::Stop in another invocation of the binary: lock the mutex of
\* that process, stop(), end.
CliStop ==
    /\ \/ /\ cpc = "wait"
          /\ CanLock("cli")
          /\ lock' = [lock EXCEPT !["cli"] = CliTask]
          /\ cpc' = "stop"
       \/ /\ cpc = "stop"
          /\ lock' = [lock EXCEPT !["cli"] = 0]
          /\ cpc' = "done"
    /\ UNCHANGED <<tasks, opLog>>
    /\ UNCHANGED exceptLock

LockInit == LockIdle /\ InstIdle /\ RulesIdle /\ MonIdle /\ UpdIdle /\ RwIdle /\ LaterIdle

LockNext == Fire \/ TaskLock \/ UpdateStep \/ RestartStep \/ CliStop

LockSpec == LockInit /\ [][LockNext]_vars

InstanceOps == {"update_available", "stop", "update", "start"}

\* C5: within the supervising process the jobs' sequences never interleave:
\* at most one task is inside an instance operation, that task holds the
\* lock, and between two operations of one task no other task began one.
C5_JobsMutuallyExclusive ==
    /\ \A t, u \in TaskIds :
         (tasks[t].pc \in InstanceOps /\ tasks[u].pc \in InstanceOps) => t = u
    /\ \A t \in TaskIds : tasks[t].pc \in InstanceOps => lock["monitor"] = t
    /\ \A i, j, k \in 1..Len(opLog) :
         (i < j /\ j < k /\ opLog[i].task = opLog[k].task) => opLog[j].task = opLog[i].task

\* C5 witness: an auto-update task is in update() while a scheduled-restart
\* task that fired meanwhile still waits for the lock.
C5_Witness ==
    \E t, u \in TaskIds :
      /\ tasks[t].kind = "auto-update" /\ tasks[t].pc = "update"
      /\ tasks[u].kind = "scheduled-restart" /\ tasks[u].pc = "wait"

\* C6 as stated: a `stop` command of a separate invocation never executes
\* its stop() while an auto-update task's stop/update/start sequence is in
\* progress.
C6_Original ==
    ~(/\ cpc = "stop"
      /\ \E t \in TaskIds :
           tasks[t].kind = "auto-update" /\ tasks[t].pc \in {"stop", "update", "start"})

(***************************************************************************)
(* gsm-instance update.rs: the build ids of the manifest and the appinfo   *)
(* file, and their comparison                                              *)
(***************************************************************************)

\* The nine characters "buildid", quotes included, as one token of a text.
Key == "<buildid>"

\* The character ".
Quote == "<quote>"

Id1000 == <<"1", "0", "0", "0">>

Id1001 == <<"1", "0", "0", "1">>

Id01000 == <<"0", "1", "0", "0", "0">>

BuildIds == {Id1000, Id1001, Id01000}

\* A line `"buildid"  "<id>"` of a manifest or appinfo file.
BuildIdEntry(id) == <<Key, " ", "\t", Quote>> \o id \o <<Quote, "\n">>

\* A file as the tests of update.rs write it: other text, then the entry.
VdfFile(id) == <<"x", "\n">> \o BuildIdEntry(id)

\* The texts the two files are given: with an entry, with two entries, with
\* none, with an entry the pattern does not accept, not UTF-8.
VdfContents ==
    {VdfFile(id) : id \in BuildIds}
    \cup {BuildIdEntry(Id1001) \o BuildIdEntry(Id1000)}
    \cup {<<>>, <<"x", "\n">>}
    \cup {<<Key, Quote, "1", Quote>>, <<Key, " ", Quote, "x", Quote>>,
          <<Key, " ", Quote, Quote>>, <<Key, " ", Quote, "1">>}
    \cup {<<BadByte>>}

\* The number of characters from index i on that are whitespace (\s+).
RECURSIVE SpaceRun(_, _)
SpaceRun(s, i) ==
    IF i <= Len(s) /\ IsSpace(s[i]) THEN 1 + SpaceRun(s, i + 1) ELSE 0

\* The number of characters from index i on that are digits (\d+).
RECURSIVE DigitRun(_, _)
DigitRun(s, i) ==
    IF i <= Len(s) /\ IsDigit(s[i]) THEN 1 + DigitRun(s, i + 1) ELSE 0

\* The pattern "buildid"\s+"(\d+)" matches the text s at index i.
MatchAt(s, i) ==
    LET q == i + 1 + SpaceRun(s, i + 1)
        e == q + 1 + DigitRun(s, q + 1)
    IN /\ s[i] = Key
       /\ SpaceRun(s, i + 1) >= 1
       /\ q <= Len(s) /\ s[q] = Quote
       /\ DigitRun(s, q + 1) >= 1
       /\ e <= Len(s) /\ s[e] = Quote

\* re.captures(text): None (<<>>) or Some(<<group 1 of the leftmost match>>).
Captures(s) ==
    IF \E i \in 1..Len(s) : MatchAt(s, i)
    THEN LET i == CHOOSE k \in 1..Len(s) :
                    MatchAt(s, k) /\ \A j \in 1..(k - 1) : ~MatchAt(s, j)
             q == i + 1 + SpaceRun(s, i + 1)
         IN <<SubSeq(s, q + 1, q + DigitRun(s, q + 1))>>
    ELSE <<>>

UpdateResult(op, status, avail, cur, latest) ==
    [op |-> op, status |-> status, avail |-> avail,
     current_build_id |-> cur, latest_build_id |-> latest]

\* fs::read_to_string succeeds on the file.
Readable(f) == f # NoFile /\ IsUtf8(f)

\* UpdateInfo::new: read the manifest, extract its build id (a panic when the
\* pattern finds none), then the same for the appinfo file.
UpdateInfo_new(op, m, a) ==
    IF ~Readable(m) THEN UpdateResult(op, "CommandExecutionError", FALSE, <<>>, <<>>)
    ELSE IF Captures(m) = <<>> THEN UpdateResult(op, "panic", FALSE, <<>>, <<>>)
    ELSE IF ~Readable(a)
         THEN UpdateResult(op, "CommandExecutionError", FALSE, Captures(m)[1], <<>>)
    ELSE IF Captures(a) = <<>>
         THEN UpdateResult(op, "panic", FALSE, Captures(m)[1], <<>>)
    ELSE UpdateResult(op, "Ok", FALSE, Captures(m)[1], Captures(a)[1])

\* A comparison of the build ids as numbers.
update_available_Numeric(current_build_id, latest_build_id) ==
    ParseDigits(current_build_id, 0, TRUE).val
        # ParseDigits(latest_build_id, 0, TRUE).val

\* UpdateInfo::update_available: String != String.
update_available(current_build_id, latest_build_id) ==
    current_build_id # latest_build_id

\* update::update_is_available: UpdateInfo::new(..)?, then update_available().
update_is_available(op, m, a) ==
    LET info == UpdateInfo_new(op, m, a)
    IN IF info.status = "Ok"
       THEN [info EXCEPT !.avail = update_available(info.current_build_id,
                                                    info.latest_build_id)]
       ELSE info

UpdateIsAvailable ==
    /\ uret' = update_is_available("update_is_available", manifest, appinfo)
    /\ UNCHANGED <<manifest, appinfo>>
    /\ UNCHANGED exceptUpd

\* Instance::update_available: update_is_available(..).unwrap_or(false); a
\* panic is not an Err and passes through.
InstanceUpdateAvailable ==
    /\ LET r == update_is_available("Instance::update_available", manifest, appinfo)
       IN uret' = IF r.status = "CommandExecutionError"
                  THEN [r EXCEPT !.status = "Ok", !.avail = FALSE]
                  ELSE r
    /\ UNCHANGED <<manifest, appinfo>>
    /\ UNCHANGED exceptUpd

UpdInit ==
    /\ InstIdle /\ RulesIdle /\ MonIdle /\ LockIdle /\ RwIdle /\ LaterIdle
    /\ manifest \in {NoFile} \cup VdfContents
    /\ appinfo \in {NoFile} \cup VdfContents
    /\ uret = UpdateResult("none", "none", FALSE, <<>>, <<>>)

UpdNext == UpdateIsAvailable \/ InstanceUpdateAvailable

UpdSpec == UpdInit /\ [][UpdNext]_vars

\* Two texts are equal byte for byte.
SameBytes(a, b) == Len(a) = Len(b) /\ \A k \in 1..Len(a) : a[k] = b[k]

\* C14: update_available is true if and only if the build id extracted from
\* the manifest and the one extracted from the appinfo file are not equal
\* byte for byte: the ids are compared as strings, never as numbers ("1000"
\* against "01000" is an update).
C14_UpdateAvailableIffStringsDiffer ==
    /\ (uret.op = "update_is_available" /\ uret.status = "Ok") =>
         (uret.avail <=> ~SameBytes(uret.current_build_id, uret.latest_build_id))
    /\ \A i, j \in BuildIds :
         (uret.op = "update_is_available"
            /\ manifest = VdfFile(i) /\ appinfo = VdfFile(j)) =>
           /\ uret.status = "Ok"
           /\ uret.current_build_id = i /\ uret.latest_build_id = j
           /\ uret.avail <=> ~SameBytes(i, j)

\* C14 witness: the manifest holds build id "1000", the appinfo file
\* "01000": the same number, and an update is reported.
C14_Witness ==
    /\ uret.op = "update_is_available" /\ uret.status = "Ok"
    /\ manifest = VdfFile(Id1000) /\ appinfo = VdfFile(Id01000)
    /\ uret.avail

\* The text has an entry "buildid" "<digits>".
HasBuildIdEntry(f) == \E i \in 1..Len(f) : MatchAt(f, i)

\* C15 as stated: computing the UpdateInfo ends with a typed error, not with
\* a panic, whenever the manifest or the appinfo file is unreadable or has
\* no "buildid" "<digits>" entry.
C15_Original ==
    (/\ uret.op = "update_is_available"
     /\ \/ ~Readable(manifest) \/ ~Readable(appinfo)
        \/ ~HasBuildIdEntry(manifest) \/ ~HasBuildIdEntry(appinfo)) =>
        uret.status = "CommandExecutionError"

(***************************************************************************)
(* gsm-monitor rules.rs: add_rule and get_rules as steps of threads that   *)
(* share the Arc<RwLock<Vec<LogRule>>>                                     *)
(***************************************************************************)

\* The arguments add_rule is called with: matcher, stop, ranking.
AddArgs ==
    {[matcher |-> {"a"}, stop |-> TRUE, ranking |-> <<>>],
     [matcher |-> {"a", "b"}, stop |-> FALSE, ranking |-> <<>>],
     [matcher |-> {"a", "b"}, stop |-> TRUE, ranking |-> <<0>>],
     [matcher |-> {"a"}, stop |-> FALSE, ranking |-> <<default_ranking(1)>>]}

\* The element of the Vec that a push is writing: not yet a rule.
Torn == [matcher |-> {}, stop |-> FALSE, ranking |-> I32Min]

\* A write() that waits for nobody.
CanWrite_Always(l) == TRUE

\* RwLock::write goes through when there is no writer and no reader.
CanWrite(l) == ~l.writer /\ l.readers = 0

\* A read() that does not wait for the writer.
CanRead_Always(l) == TRUE

\* RwLock::read goes through when there is no writer.
CanRead(l) == ~l.writer

\* The calls of add_rule that are between their lock and their return.
InAdd == {a \in Adders : apc[a] # "idle"}

\* add_rule from self.rules.write() to the rule it builds: its ranking is
\* the given one, or default_ranking(rules.len()).
AddBegin ==
    \E a \in Adders, args \in AddArgs :
      /\ apc[a] = "idle"
      /\ Len(rules) + Cardinality({b \in Adders : apc[b] = "built"}) < MaxRules
      /\ CanWrite(rw)
      /\ rw' = [rw EXCEPT !.writer = TRUE]
      /\ pend' = [pend EXCEPT ![a] =
                    [matcher |-> args.matcher, stop |-> args.stop,
                     ranking |-> args.ranking,
                     rank |-> IF args.ranking = <<>>
                              THEN default_ranking(Len(rules))
                              ELSE args.ranking[1],
                     slot |-> 0]]
      /\ apc' = [apc EXCEPT ![a] = "built"]
      /\ UNCHANGED <<rules, line, snap, fired, calls, epc, given>>
      /\ UNCHANGED exceptRw

\* rules.push(rule) begins: the element behind the last one is being written.
AddPush ==
    \E a \in Adders :
      /\ apc[a] = "built"
      /\ rules' = Append(rules, Torn)
      /\ given' = Append(given, [matcher |-> pend[a].matcher, stop |-> pend[a].stop,
                                 ranking |-> pend[a].ranking])
      /\ pend' = [pend EXCEPT ![a].slot = Len(rules) + 1]
      /\ apc' = [apc EXCEPT ![a] = "pushing"]
      /\ UNCHANGED <<line, snap, fired, calls, rw, epc>>
      /\ UNCHANGED exceptRw

\* rules.push(rule) is complete and add_rule returns, dropping the guard.
AddEnd ==
    \E a \in Adders :
      /\ apc[a] = "pushing"
      /\ rules' = [rules EXCEPT ![pend[a].slot] =
                     [matcher |-> pend[a].matcher, stop |-> pend[a].stop,
                      ranking |-> pend[a].rank]]
      /\ rw' = [rw EXCEPT !.writer = FALSE]
      /\ pend' = [pend EXCEPT ![a] = NoPending]
      /\ apc' = [apc EXCEPT ![a] = "idle"]
      /\ UNCHANGED <<line, snap, fired, calls, epc, given>>
      /\ UNCHANGED exceptRw

\* process_rules(line) -> get_rules: self.rules.read().
EvalRead ==
    /\ epc = "idle"
    /\ CanRead(rw)
    /\ \E l \in Lines : line' = l
    /\ rw' = [rw EXCEPT !.readers = rw.readers + 1]
    /\ epc' = "reading"
    /\ UNCHANGED <<rules, snap, fired, calls, apc, pend, given>>
    /\ UNCHANGED exceptRw

\* get_rules: .clone() of the Vec; the read guard is dropped with the
\* statement.
EvalClone ==
    /\ epc = "reading"
    /\ snap' = rules
    /\ rw' = [rw EXCEPT !.readers = rw.readers - 1]
    /\ epc' = "cloned"
    /\ UNCHANGED <<rules, line, fired, calls, apc, pend, given>>
    /\ UNCHANGED exceptRw

\* The rest of process_rules: sort the copy, filter, scan, run the actions.
EvalRun ==
    /\ epc = "cloned"
    /\ fired' = process_rules(snap, line).fired
    /\ calls' = process_rules(snap, line).calls
    /\ epc' = "idle"
    /\ UNCHANGED <<rules, line, snap, rw, apc, pend, given>>
    /\ UNCHANGED exceptRw

RwInit == RulesIdle /\ RwIdle /\ InstIdle /\ MonIdle /\ LockIdle /\ UpdIdle /\ LaterIdle

RwNext == AddBegin \/ AddPush \/ AddEnd \/ EvalRead \/ EvalClone \/ EvalRun

RwSpec == RwInit /\ [][RwNext]_vars

\* Rule i of the sequence rs is the rule that the i-th pushed call gave.
AsGiven(rs, i) ==
    /\ rs[i].matcher = given[i].matcher
    /\ rs[i].stop = given[i].stop
    /\ given[i].ranking # <<>> => rs[i].ranking = given[i].ranking[1]

\* C16: the copy of the rules taken for a line is made while no add_rule
\* call is under way and holds exactly the rules of the calls completed so
\* far, each with matcher, stop and ranking as given; add_rule calls made
\* while the line is evaluated change neither the copy nor the evaluation,
\* which is that of the copy.
C16_SnapshotOfCompletedAdds ==
    [][/\ (epc = "reading" /\ epc' = "cloned") =>
            /\ InAdd = {}
            /\ Len(snap') = Len(given)
            /\ \A i \in 1..Len(snap') : snap'[i] # Torn /\ AsGiven(snap', i)
       /\ (epc = "cloned") => snap' = snap
       /\ (epc = "cloned" /\ epc' = "idle") =>
            /\ fired' = process_rules(snap, line).fired
            /\ \A k \in 1..Len(fired') : fired'[k] \in 1..Len(snap)]_vars

\* C16 witness: a line is being evaluated on a copy of one rule while an
\* add_rule call is in the middle of its push of a second rule.
C16_Witness ==
    /\ epc = "cloned"
    /\ Len(snap) = 1
    /\ Len(rules) = 2
    /\ \E a \in Adders : apc[a] = "pushing"

\* The place of rule i in the evaluation order of the rules rs.
PlaceOf(rs, i) == CHOOSE k \in 1..Len(rs) : get_rules(rs)[k] = i

\* C17: of two rules registered without a ranking, the one pushed earlier
\* has the strictly smaller ranking and comes earlier in the evaluation
\* order, whatever was registered in between and by whichever thread.
C17_DefaultRankingFollowsRegistration ==
    \A i, j \in 1..Len(rules) :
      (/\ i < j
       /\ given[i].ranking = <<>> /\ given[j].ranking = <<>>
       /\ rules[i] # Torn /\ rules[j] # Torn) =>
        /\ rules[i].ranking < rules[j].ranking
        /\ InAdd = {} => PlaceOf(rules, i) < PlaceOf(rules, j)

\* C17 witness: three rules pushed by two threads; the first and the third
\* were given no ranking, the second an explicit one.
C17_Witness ==
    /\ Len(rules) = 3 /\ InAdd = {}
    /\ given[1].ranking = <<>> /\ given[2].ranking # <<>> /\ given[3].ranking = <<>>
    /\ rules[1].ranking < rules[3].ranking

(***************************************************************************)
(* gsm-monitor: the rule set the apps hand to the log monitors             *)
(***************************************************************************)

\* The apps register at most MaxAppRules rules of their own.
MaxAppRules == 2

\* The lines of a server log, by what the matchers look for in them.
AppLines == {"WARNING", "ERROR", "WARNING ERROR", "HostOnline", "other"}

\* |line| line.contains("WARNING")
WarningMatcher == {"WARNING", "WARNING ERROR"}

\* |line| line.contains("ERROR")
ErrorMatcher == {"ERROR", "WARNING ERROR"}

\* impl Default for LogRules: new(), then the WARNING and the ERROR rule,
\* both with stop = true and no ranking given.
LogRules_default ==
    add_rule(add_rule(<<>>, WarningMatcher, TRUE, <<>>), ErrorMatcher, TRUE, <<>>)

\* The matchers of the rules an app adds: a server event, a rule that also
\* accepts a WARNING line, and |_| true.
AppMatchers == {{"HostOnline"}, {"HostOnline", "WARNING"}, AppLines}

\* main.rs: rules.add_rule(..) on the default rule set, before the monitors
\* are started.
AppAddRule ==
    /\ line = ""
    /\ Len(rules) < Len(LogRules_default) + MaxAppRules
    /\ \E m \in AppMatchers, st \in BOOLEAN, rk \in {<<>>, <<DEFAULT_STOP_INT>>} :
         rules' = add_rule(rules, m, st, rk)
    /\ UNCHANGED <<line, snap, fired, calls>>
    /\ UNCHANGED exceptRules

\* A monitor thread evaluates a line of its log.
AppProcessLine ==
    /\ \E l \in AppLines :
         /\ line' = l
         /\ snap' = rules
         /\ fired' = process_rules(rules, l).fired
         /\ calls' = process_rules(rules, l).calls
    /\ UNCHANGED rules
    /\ UNCHANGED exceptRules

\* main.rs: let rules = LogRules::default();
AppRulesInit ==
    /\ rules = LogRules_default
    /\ line = ""
    /\ snap = <<>>
    /\ fired = <<>>
    /\ calls = <<>>
    /\ InstIdle /\ MonIdle /\ LockIdle /\ UpdIdle /\ RwIdle /\ LaterIdle

AppRulesNext == AppAddRule \/ AppProcessLine

AppRulesSpec == AppRulesInit /\ [][AppRulesNext]_vars

\* Rule c of the evaluated copy is a catch-all ranked behind every other
\* rule: it accepts every line, has stop = true and the greatest ranking.
IsLastCatchAll(c) ==
    /\ snap[c].matcher = AppLines
    /\ snap[c].stop
    /\ \A o \in 1..Len(snap) : o # c => snap[o].ranking < snap[c].ranking

\* C18 as stated: the rule set a monitor evaluates contains a catch-all rule
\* (accepts every line, stop = true) ranked behind every other rule, whose
\* action runs for a line exactly when no accepting stop rule came before.
C18_Original ==
    line \in AppLines =>
        \E c \in 1..Len(snap) :
          /\ IsLastCatchAll(c)
          /\ (\E k \in 1..Len(fired) : fired[k] = c)
               <=> ~\E o \in 1..Len(snap) :
                      o # c /\ snap[o].stop /\ line \in snap[o].matcher

(***************************************************************************)
(* gsm-monitor: a monitored file that is replaced by another file          *)
(***************************************************************************)

\* The file at the path is replaced by a new, empty file (the old one is
\* renamed or unlinked); a handle that is open stays with the old file.
Rotate ==
    /\ truncs < MaxTruncs
    /\ disk' = <<>>
    /\ wpart' = 0
    /\ truncs' = truncs + 1
    /\ IF mpc = "tail" /\ ~rdStale
       THEN /\ rdStale' = TRUE
            /\ oldDisk' = disk
       ELSE UNCHANGED handleVars
    /\ UNCHANGED <<nextId, mpc, rdPos, rdBuf, reads, mlog>>
    /\ UNCHANGED exceptMon

RotNext == MonNext \/ Rotate

\* The monitor thread runs its loop for ever: a round that can make
\* progress is made.
RotSpec == MonInit /\ [][RotNext]_vars /\ WF_vars(MonitorRead)

\* C19 as stated: when the file at the path was replaced while the monitor
\* tails it, the monitor eventually opens the path again and reads the new
\* file from its start.
C19_Original ==
    (mpc = "tail" /\ rdStale) ~> (~rdStale /\ mlog = "reopened")

\* An evaluated read is one whole line: its text and its terminator.
WholeLine(r) == Len(r) = 2 /\ ~IsNewline(r[1]) /\ r[2] = Newline(r[1])

\* C20 as stated: without truncation, every evaluation the monitor makes is
\* that of one whole line appended after it positioned itself at the end,
\* each line is evaluated once, and in the order of the file.
C20_Original ==
    truncs = 0 =>
        /\ \A k \in 1..Len(reads) : WholeLine(reads[k])
        /\ \A k, m \in 1..Len(reads) : k < m => reads[k][1] < reads[m][1]

(***************************************************************************)
(* start_instance_log_monitor: one monitor thread per log file             *)
(***************************************************************************)

\* At most MaxEvals lines of each log file are followed.
MaxEvals == 2

exceptTwo == <<instVars, ruleVars, monVars, lockVars, updVars, rwVars,
               regVars, cronVars, cmdVars>>

\* An open failure that ends the process (std::process::exit).
OnOpenError_Exit(st) ==
    [st EXCEPT !.mon.pc = "returned", !.mon.log = "open_failed",
               !.process = "exited"]

\* Monitor::run, the Err arm of File::open: error!(...) and return. st is
\* the monitor thread together with its process.
OnOpenError(st) ==
    [st EXCEPT !.mon.pc = "returned", !.mon.log = "open_failed"]

\* The next file start_instance_log_monitor spawns a thread for.
NextToSpawn ==
    {i \in 1..Len(LogFiles) :
        /\ logmons[LogFiles[i]].pc = "unspawned"
        /\ \A k \in 1..(i - 1) : logmons[LogFiles[k]].pc # "unspawned"}

\* start_monitor_in_thread: thread::Builder::spawn; a failure is logged.
StartMonitorInThread ==
    /\ process = "running"
    /\ \E i \in NextToSpawn : \E ok \in BOOLEAN :
          logmons' = [logmons EXCEPT ![LogFiles[i]] =
                         IF ok THEN [@ EXCEPT !.pc = "start"]
                               ELSE [@ EXCEPT !.pc = "spawn_failed",
                                              !.log = "spawn_failed"]]
    /\ UNCHANGED <<logfiles, process>>
    /\ UNCHANGED exceptTwo

\* Monitor::run up to its loop: File::open, then seek to the end.
MonitorRunOpen(f) ==
    /\ process = "running"
    /\ logmons[f].pc = "start"
    /\ \E seek_ok \in BOOLEAN :
          LET st == [mon |-> logmons[f], process |-> process]
              after == IF ~logfiles[f] THEN OnOpenError(st)
                       ELSE IF seek_ok THEN [st EXCEPT !.mon.pc = "tail"]
                       ELSE [st EXCEPT !.mon.pc = "returned",
                                       !.mon.log = "seek_failed"]
          IN /\ logmons' = [logmons EXCEPT ![f] = after.mon]
             /\ process' = after.process
    /\ UNCHANGED logfiles
    /\ UNCHANGED exceptTwo

\* One turn of the loop of Monitor::run that reads a line and evaluates it.
MonitorTail(f) ==
    /\ process = "running"
    /\ logmons[f].pc = "tail"
    /\ logmons[f].evals < MaxEvals
    /\ logmons' = [logmons EXCEPT ![f].evals = @ + 1]
    /\ UNCHANGED <<logfiles, process>>
    /\ UNCHANGED exceptTwo

\* The server's start creates the log file, or somebody removes it.
LogFileChange(f) ==
    /\ logfiles' = [logfiles EXCEPT ![f] = ~@]
    /\ UNCHANGED <<logmons, process>>
    /\ UNCHANGED exceptTwo

TwoInit ==
    /\ EarlierIdle /\ RegIdle /\ CronIdle /\ CmdIdle
    /\ logfiles \in [LogFileSet -> BOOLEAN]
    /\ logmons = [f \in LogFileSet |-> NoMonitor]
    /\ process = "running"

TwoNext ==
    \/ StartMonitorInThread
    \/ \E f \in LogFileSet : MonitorRunOpen(f)
    \/ \E f \in LogFileSet : MonitorTail(f)
    \/ \E f \in LogFileSet : LogFileChange(f)

TwoSpec == TwoInit /\ [][TwoNext]_vars

\* C21: a monitor whose log file could not be opened has logged the error
\* and returned, and it stays returned even when the file appears later; the
\* step in which it fails changes nothing of the other file's monitor, the
\* process keeps running, and the other monitor's next step stays possible.
C21_OpenFailureEndsOnlyThatMonitor ==
    [][\A f \in LogFileSet : logmons'[f].log = "open_failed" =>
          /\ logmons'[f].pc = "returned"
          /\ process' = "running"
          /\ logmons[f].log = "open_failed" => logmons'[f] = logmons[f]
          /\ logmons[f].log # "open_failed" =>
                \A g \in LogFileSet \ {f} : logmons'[g] = logmons[g]
          /\ \A g \in LogFileSet \ {f} :
                /\ logmons'[g].pc = "start" => (ENABLED MonitorRunOpen(g))'
                /\ (logmons'[g].pc = "tail" /\ logmons'[g].evals < MaxEvals)
                      => (ENABLED MonitorTail(g))']_vars

\* C21 witness: the monitor of server.log failed to open its file, the file
\* has appeared since, and the monitor of server.err has evaluated lines.
C21_Witness ==
    /\ logmons["server.log"].log = "open_failed"
    /\ logmons["server.log"].pc = "returned"
    /\ logfiles["server.log"]
    /\ logmons["server.err"].pc = "tail"
    /\ logmons["server.err"].evals >= 1

(***************************************************************************)
(* gsm-cron: register_job and spawn_scheduled_job up to the spawn          *)
(***************************************************************************)

\* Expressions of up to MaxFields fields are registered.
MaxFields == 7

\* At most MaxRegs register_job calls are followed.
MaxRegs == 2

exceptReg == <<instVars, ruleVars, monVars, lockVars, updVars, rwVars,
               logfiles, logmons, cronVars, cmdVars>>

Star == <<"*">>

Every5 == <<"*", "/", "5">>

Zero == <<"0">>

BadField == <<"x">>

RECURSIVE Join(_, _)
\* The fields fs with sep between them, as one text.
Join(fs, sep) ==
    IF fs = <<>> THEN <<>>
    ELSE IF Len(fs) = 1 THEN fs[1]
    ELSE fs[1] \o sep \o Join(Tail(fs), sep)

\* The expression of n fields that begins with the field `first`: after a
\* "0" comes "*/5", every other field is "*".
ExprOf(n, first, sep) ==
    Join([i \in 1..n |-> IF i = 1 THEN first
                         ELSE IF i = 2 /\ first = Zero THEN Every5
                         ELSE Star], sep)

\* The cron expressions the callers of register_job pass.
CronExprs ==
    {ExprOf(n, first, sep) : n \in 0..MaxFields,
                             first \in {Every5, Zero, BadField},
                             sep \in {<<" ">>, <<" ", "\t">>}}

RECURSIVE SplitFrom(_, _, _)
\* The fields of s after the fields acc and the characters cur of the field
\* begun.
SplitFrom(s, cur, acc) ==
    IF s = <<>> THEN (IF cur = <<>> THEN acc ELSE Append(acc, cur))
    ELSE IF IsSpace(Head(s))
         THEN SplitFrom(Tail(s), <<>>, IF cur = <<>> THEN acc ELSE Append(acc, cur))
         ELSE SplitFrom(Tail(s), Append(cur, Head(s)), acc)

\* str::split_whitespace: the maximal runs of characters that are no white
\* space, in order.
split_whitespace(s) == SplitFrom(s, <<>>, <<>>)

field_count(schedule) == Len(split_whitespace(schedule))

\* A normalisation that prepends the seconds field to every expression.
adjusted_schedule_Always(schedule) == <<"0", " ">> \o schedule

\* register_job: format!("0 {}", schedule) for five fields, else the text
\* as it was given.
adjusted_schedule(schedule) ==
    IF field_count(schedule) = 5 THEN <<"0", " ">> \o schedule ELSE schedule

\* Schedule::from_str of the cron crate: seconds, minutes, hours, day of
\* month, month, day of week and an optional year, each a valid field.
Schedule_from_str(schedule_str) ==
    LET fs == split_whitespace(schedule_str)
    IN /\ Len(fs) \in {6, 7}
       /\ \A i \in 1..Len(fs) : fs[i] \in {Star, Every5, Zero}
       /\ Len(fs) = 7 => fs[7] = Star

\* A parse failure that unwinds into the caller (Schedule::from_str(..)
\* .expect(..) in main's thread).
OnParseError_Abort(st) ==
    [st EXCEPT !.status = "parse_error", !.logged = @ + 1, !.process = "aborted"]

\* spawn_scheduled_job, the Err arm: error!(...) and return.
OnParseError(st) ==
    [st EXCEPT !.status = "parse_error", !.logged = @ + 1]

\* spawn_scheduled_job: parse, then tokio::spawn of the loop. st is the
\* status of this job, the error count and the process.
spawn_scheduled_job(schedule_str, st) ==
    IF Schedule_from_str(schedule_str)
    THEN [st EXCEPT !.status = "spawned"]
    ELSE OnParseError(st)

\* register_job(name, schedule, job), with the call of spawn_scheduled_job.
RegisterJob ==
    /\ process = "running"
    /\ Len(reg) < MaxRegs
    /\ \E schedule \in CronExprs :
          LET adj == adjusted_schedule(schedule)
              st == spawn_scheduled_job(adj,
                        [status |-> "none", logged |-> rlogged, process |-> process])
          IN /\ reg' = Append(reg, [given |-> schedule, adjusted |-> adj,
                                    status |-> st.status, fired |-> FALSE])
             /\ rlogged' = st.logged
             /\ process' = st.process
    /\ UNCHANGED exceptReg

\* The loop of the i-th registered job invokes its action.
JobFires(i) ==
    /\ process = "running"
    /\ i \in 1..Len(reg)
    /\ reg[i].status = "spawned"
    /\ ~reg[i].fired
    /\ reg' = [reg EXCEPT ![i].fired = TRUE]
    /\ UNCHANGED <<rlogged, process>>
    /\ UNCHANGED exceptReg

RegInit == EarlierIdle /\ LaterIdle

RegNext == RegisterJob \/ \E i \in 1..MaxRegs : JobFires(i)

RegSpec == RegInit /\ [][RegNext]_vars

FiveFields == <<"*", "/", "5", " ", "*", " ", "*", " ", "*", " ", "*">>

SixFields == <<"0", " ", "*", "/", "5", " ", "*", " ", "*", " ", "*", " ", "*">>

\* C25: an expression of exactly five whitespace-separated fields reaches
\* the parser as the six fields "0" and then its own five; an expression of
\* any other field count reaches the parser as the text that was given.
\* "*/5 * * * *" becomes "0 */5 * * * *", which itself is left as it is.
C25_FiveFieldsGetSecondsField ==
    /\ \A i \in 1..Len(reg) :
          LET fs == split_whitespace(reg[i].given)
          IN IF Len(fs) = 5
             THEN split_whitespace(reg[i].adjusted) = <<Zero>> \o fs
             ELSE reg[i].adjusted = reg[i].given
    /\ adjusted_schedule(FiveFields) = SixFields
    /\ adjusted_schedule(SixFields) = SixFields

\* C25 witness: a five-field expression was registered and normalised to
\* "0 */5 * * * *", and that six-field text was registered as well.
C25_Witness ==
    /\ Len(reg) = 2
    /\ reg[1].given = FiveFields
    /\ reg[1].adjusted = SixFields
    /\ reg[2].given = SixFields
    /\ reg[2].adjusted = SixFields
    /\ reg[2].status = "spawned"

\* C26: a registration whose normalised expression does not parse logs one
\* error, gets no loop and never fires, and leaves the process running; the
\* registrations before it are untouched by it, every registration gets its
\* loop exactly if its own expression parses, and every loop can fire.
C26_ParseFailureIsIsolated ==
    [][/\ Len(reg') > Len(reg) =>
             LET r == reg'[Len(reg')]
             IN /\ SubSeq(reg', 1, Len(reg)) = reg
                /\ (r.status = "spawned") = Schedule_from_str(r.adjusted)
                /\ r.status # "spawned" =>
                      /\ r.status = "parse_error"
                      /\ rlogged' = rlogged + 1
                      /\ process' = "running"
       /\ \A i \in 1..Len(reg') :
             /\ reg'[i].fired => reg'[i].status = "spawned"
             /\ (reg'[i].status = "spawned" /\ ~reg'[i].fired)
                   => (ENABLED JobFires(i))']_vars

\* C26 witness: between two registrations that got their loops and fired,
\* or before one, a registration failed to parse.
C26_Witness ==
    /\ Len(reg) = 2
    /\ reg[1].status = "parse_error"
    /\ field_count(reg[1].given) = 4
    /\ rlogged = 1
    /\ reg[2].status = "spawned"
    /\ reg[2].fired
    /\ process = "running"

(***************************************************************************)
(* gsm-cron: the loops spawn_scheduled_job spawns, on the tokio runtime    *)
(***************************************************************************)

\* Time is followed for MaxTime ticks.
MaxTime == 3

\* The ticks a task of a job's action keeps its worker thread when the
\* instance operations it calls block (stop's polling, update's subprocess).
SlowTicks == 2

exceptCron == <<instVars, ruleVars, monVars, lockVars, updVars, rwVars,
                twoVars, regVars, cmdVars>>

\* A parsed schedule: its occurrences are the times phase + k * period.
Schedules == {[period |-> p, phase |-> q] : p \in {1, 2}, q \in {0, 1}} \
             {[period |-> 1, phase |-> 1]}

\* Schedule::upcoming, one step of its iterator: the first occurrence that
\* is later than t.
upcoming(sched, t) ==
    CHOOSE o \in (t + 1)..(t + sched.period) : o % sched.period = sched.phase

\* A wait that takes the distance to the occurrence, whichever came first.
wait_time_Abs(datetime, t) ==
    IF datetime - t < 0 THEN t - datetime ELSE datetime - t

\* (datetime - now).to_std().unwrap_or(Duration::ZERO)
wait_time(datetime, t) ==
    IF datetime - t < 0 THEN 0 ELSE datetime - t

\* The loop at `sleep(wait_time).await` for the occurrence after `last`,
\* when it gets there at time t.
SleepFor(lp, t) ==
    LET datetime == upcoming(lp.sched, lp.last)
    IN [lp EXCEPT !.pc = "sleeping", !.due = datetime, !.reached = t,
                  !.wake = t + wait_time(datetime, t)]

\* The loops that are inside a call of job().
InJob == {j \in Jobs : loops[j].pc = "in_job"}

\* The worker threads no task is blocking or running on.
FreeWorkers == workers - (IF now < busy.until THEN 1 ELSE 0) - Cardinality(InJob)

\* The Mutex<Instance> is free: the task that took it has finished.
LockFree == now >= busy.until

\* A loop that goes round again while its call of job() has not returned.
LoopReady_WhileInJob(j) == loops[j].pc \in {"sleeping", "in_job"} /\ now >= loops[j].wake

\* The loop of job j is at `sleep(wait_time).await` and the sleep is over.
LoopReady(j) == loops[j].pc = "sleeping" /\ now >= loops[j].wake

ActionReady(j) == acts[j] > 0 /\ LockFree

\* One round of the loop of job j, up to the call: the sleep is over and
\* job() is called on the worker thread the loop's task runs on.
LoopRound(j) ==
    /\ LoopReady(j)
    /\ FreeWorkers > 0
    /\ fires' = Append(fires, [job |-> j, occ |-> loops[j].due,
                               reached |-> loops[j].reached,
                               wake |-> loops[j].wake, at |-> now])
    /\ loops' = [loops EXCEPT ![j].pc = "in_job"]
    /\ UNCHANGED <<now, acts, busy, workers>>
    /\ UNCHANGED exceptCron

\* The call of job() in the loop of job j ends: it returns after
\* tokio::spawn of its task, and the loop goes to sleep for the next
\* datetime of the iterator; or it panics, which ends the task of the loop.
JobReturns(j) ==
    /\ loops[j].pc = "in_job"
    /\ \E outcome \in {"returned", "panicked"} :
          IF outcome = "returned"
          THEN /\ loops' = [loops EXCEPT ![j] =
                               SleepFor([@ EXCEPT !.last = loops[j].due], now)]
               /\ acts' = [acts EXCEPT ![j] = @ + 1]
          ELSE /\ loops' = [loops EXCEPT ![j].pc = "dead"]
               /\ UNCHANGED acts
    /\ UNCHANGED <<now, fires, busy, workers>>
    /\ UNCHANGED exceptCron

\* A task a job's action spawned runs: it takes the instance lock and calls
\* the instance operations on its worker thread, which return at once or
\* block that thread for SlowTicks.
ActionRun(j) ==
    /\ ActionReady(j)
    /\ FreeWorkers > 0
    /\ acts' = [acts EXCEPT ![j] = @ - 1]
    /\ \E d \in {0, SlowTicks} :
          busy' = IF d = 0 THEN busy ELSE [by |-> j, until |-> now + d]
    /\ UNCHANGED <<now, loops, fires, workers>>
    /\ UNCHANGED exceptCron

\* Time passes while no task is running and no task that is ready has a
\* worker thread to run on.
Tick ==
    /\ now < MaxTime
    /\ InJob = {}
    /\ ~(FreeWorkers > 0 /\ \E j \in Jobs : LoopReady(j) \/ ActionReady(j))
    /\ now' = now + 1
    /\ UNCHANGED <<loops, fires, acts, busy, workers>>
    /\ UNCHANGED exceptCron

\* Both jobs registered at time 0, their loops at their first sleep; the
\* runtime has as many worker threads as the host has cores.
CronInit ==
    /\ EarlierIdle /\ TwoIdle /\ RegIdle /\ CmdIdle
    /\ now = 0
    /\ \E ss \in [Jobs -> Schedules] :
          loops = [j \in Jobs |->
                      SleepFor([pc |-> "next", sched |-> ss[j], last |-> 0,
                                due |-> 0, reached |-> 0, wake |-> 0], 0)]
    /\ fires = <<>>
    /\ acts = [j \in Jobs |-> 0]
    /\ busy = NotBusy
    /\ workers \in {1, 2}

CronNext ==
    \/ \E j \in Jobs : LoopRound(j)
    \/ \E j \in Jobs : JobReturns(j)
    \/ \E j \in Jobs : ActionRun(j)
    \/ Tick

CronSpec == CronInit /\ [][CronNext]_vars

\* The invocations of job j, in order.
FiresOf(j) == SelectSeq(fires, LAMBDA f : f.job = j)

\* C22: no invocation for an occurrence begins before the occurrence; the
\* sleep for an occurrence that had passed when the loop reached it is zero,
\* for the occurrences invoked and for the one the loop is sleeping for;
\* and the occurrences a job is invoked for are the consecutive occurrences
\* of its schedule, none skipped.
C22_NeverEarlyLateOnesAtOnce ==
    /\ \A k \in 1..Len(fires) :
          /\ fires[k].at >= fires[k].occ
          /\ fires[k].at >= fires[k].wake
          /\ fires[k].occ <= fires[k].reached => fires[k].wake = fires[k].reached
          /\ fires[k].occ > fires[k].reached => fires[k].wake = fires[k].occ
    /\ \A j \in Jobs :
          LET fj == FiresOf(j)
          IN \A k \in 1..Len(fj) :
                fj[k].occ = upcoming(loops[j].sched, IF k = 1 THEN 0 ELSE fj[k - 1].occ)
    /\ \A j \in Jobs : loops[j].pc = "sleeping" =>
          /\ loops[j].due <= loops[j].reached => loops[j].wake = loops[j].reached
          /\ loops[j].due > loops[j].reached => loops[j].wake = loops[j].due

\* C22 witness: a job was invoked for an occurrence that had passed when
\* its loop reached it, and before that for the occurrence before it.
C22_Witness ==
    \E k \in 1..Len(fires) : \E m \in 1..(k - 1) :
        /\ fires[k].job = fires[m].job
        /\ fires[k].occ < fires[k].reached
        /\ fires[k].wake = fires[k].reached
        /\ fires[m].occ < fires[k].occ

\* C23: while the task of one job's action keeps a worker thread, the loop
\* of another job is never still waiting for a worker after the time it was
\* to wake at.
C23_Original ==
    \A j \in Jobs :
        (loops[j].pc = "sleeping" /\ now > loops[j].wake)
            => ~(now < busy.until /\ busy.by # j)

\* C24: the loop of a registered job never ends.
C24_Original ==
    [][\A j \in Jobs : loops[j].pc # "dead" => loops'[j].pc # "dead"]_vars

(***************************************************************************)
(* gsm-instance: the command of start (launcher.rs, startup.rs) and the    *)
(* subprocess of install and update                                        *)
(***************************************************************************)

exceptCmd == <<instVars, ruleVars, monVars, lockVars, updVars, rwVars,
               twoVars, regVars, cronVars>>

\* config.command, the executable of the game server.
GameExe == PathOf(0, <<"server.exe">>)

\* config.launch_args
LaunchArgs == <<PathOf(0, <<"-log">>)>>

\* The directories below compatibilitytools.d that match *Proton* and hold
\* a file `proton`, by the text that follows "GE-Proton" in their names.
ProtonNames == {<<"8">>, <<"9">>, <<"1", "0">>}

\* The glob patterns of find_proton that are followed, in their order: the
\* first two of the five.
PatternDirs == 1..2

\* What a host can have installed.
Envs ==
    [umu_run : BOOLEAN, umu_launcher : BOOLEAN,
     tools : [PatternDirs -> SUBSET ProtonNames],
     usr_proton : BOOLEAN, wine64 : BOOLEAN, wine : BOOLEAN]

RECURSIVE LexLess(_, _)
\* The order of str on texts of digits: a < b.
LexLess(a, b) ==
    IF a = <<>> THEN b # <<>>
    ELSE IF b = <<>> THEN FALSE
    ELSE IF Head(a) = Head(b) THEN LexLess(Tail(a), Tail(b))
    ELSE DigitVal(Head(a)) < DigitVal(Head(b))

RECURSIVE glob(_)
\* glob(pattern): the matches in alphabetical order.
glob(names) ==
    IF names = {} THEN <<>>
    ELSE LET first == CHOOSE n \in names : \A m \in names \ {n} : LexLess(n, m)
         IN <<first>> \o glob(names \ {first})

\* find_umu_launcher: which("umu-run"), then which("umu-launcher").
find_umu_launcher(e) ==
    IF e.umu_run THEN <<PathOf(0, <<"umu-run">>)>>
    ELSE IF e.umu_launcher THEN <<PathOf(0, <<"umu-launcher">>)>>
    ELSE <<>>

RECURSIVE find_proton_from(_, _)
\* The loop of find_proton over the patterns from the i-th on: the first
\* path of the first pattern that has one; then the fallback paths.
find_proton_from(e, i) ==
    IF i \notin PatternDirs
    THEN (IF e.usr_proton THEN <<PathOf(0, <<"/usr/bin/proton">>)>> ELSE <<>>)
    ELSE LET paths == glob(e.tools[i])
         IN IF paths # <<>> THEN <<PathOf(i, paths[1])>>
            ELSE find_proton_from(e, i + 1)

find_proton(e) == find_proton_from(e, 1)

\* find_wine: which("wine64"), then which("wine").
find_wine(e) ==
    IF e.wine64 THEN <<PathOf(0, <<"wine64">>)>>
    ELSE IF e.wine THEN <<PathOf(0, <<"wine">>)>>
    ELSE <<>>

\* A resolution that prefers an installed Proton to the launcher.
find_windows_compatibility_ProtonFirst(e) ==
    IF find_proton(e) # <<>>
    THEN [kind |-> "Proton", path |-> find_proton(e)[1]]
    ELSE IF find_umu_launcher(e) # <<>>
    THEN [kind |-> "UmuProton", path |-> find_umu_launcher(e)[1]]
    ELSE IF find_wine(e) # <<>>
    THEN [kind |-> "Wine", path |-> find_wine(e)[1]]
    ELSE NoCompat

find_windows_compatibility(e) ==
    IF find_umu_launcher(e) # <<>>
    THEN [kind |-> "UmuProton", path |-> find_umu_launcher(e)[1]]
    ELSE IF find_proton(e) # <<>>
    THEN [kind |-> "Proton", path |-> find_proton(e)[1]]
    ELSE IF find_wine(e) # <<>>
    THEN [kind |-> "Wine", path |-> find_wine(e)[1]]
    ELSE NoCompat

\* A create_command that runs the executable itself when no layer is found.
create_command_Native(compat, game_exe) ==
    IF compat.kind = "Proton"
    THEN <<[program |-> compat.path, args |-> <<PathOf(0, <<"run">>), game_exe>>]>>
    ELSE IF compat.kind \in {"Wine", "UmuProton"}
    THEN <<[program |-> compat.path, args |-> <<game_exe>>]>>
    ELSE <<[program |-> game_exe, args |-> <<>>]>>

\* WindowsCompat::create_command: Some(command), or None.
create_command(compat, game_exe) ==
    IF compat.kind = "Proton"
    THEN <<[program |-> compat.path, args |-> <<PathOf(0, <<"run">>), game_exe>>]>>
    ELSE IF compat.kind \in {"Wine", "UmuProton"}
    THEN <<[program |-> compat.path, args |-> <<game_exe>>]>>
    ELSE <<>>

\* launch_server: the command, or the error. stdout_ok: File::create of the
\* log file succeeds.
launch_server(force_windows, e, stdout_ok) ==
    LET compat == IF force_windows THEN find_windows_compatibility(e) ELSE NoCompat
        command == IF force_windows THEN create_command(compat, GameExe)
                   ELSE <<[program |-> GameExe, args |-> <<>>]>>
    IN IF command = <<>>
       THEN [NoLaunch EXCEPT !.status = "CommandExecutionError", !.compat = compat]
       ELSE IF ~stdout_ok
       THEN [NoLaunch EXCEPT !.status = "IoError", !.compat = compat]
       ELSE [NoLaunch EXCEPT !.status = "Ok", !.compat = compat,
                             !.program = command[1].program,
                             !.args = command[1].args \o LaunchArgs]

\* The steps of start_daemonized that can fail.
StartSteps == {"create_log_files", "stdout", "spawn", "daemonize", "none"}

\* start_daemonized: create_log_files, launch_server, spawn, daemonize;
\* `fails` is the step whose system call fails.
StartDaemonized ==
    \E force_windows \in BOOLEAN : \E fails \in StartSteps :
        LET built == launch_server(force_windows, env, fails # "stdout")
            started == [built EXCEPT !.op = "start", !.force_windows = force_windows]
        IN /\ lret' = IF fails = "create_log_files"
                      THEN [NoLaunch EXCEPT !.op = "start", !.status = "IoError",
                                            !.force_windows = force_windows]
                      ELSE IF built.status # "Ok"
                      THEN [started EXCEPT !.status = "CommandExecutionError"]
                      ELSE IF fails = "spawn"
                      THEN [started EXCEPT !.status = "CommandExecutionError"]
                      ELSE IF fails = "daemonize"
                      THEN [started EXCEPT !.status = "CommandExecutionError",
                                           !.spawned = TRUE]
                      ELSE [started EXCEPT !.spawned = TRUE]
           /\ UNCHANGED env
           /\ UNCHANGED exceptCmd

\* How the steamcmd subprocess can end: it cannot be started, it exits with
\* a status, or a signal ends it.
Outcomes == {"not_started", "exit_0", "exit_1", "exit_255", "signal_9"}

\* ExitStatus::success
success(outcome) == outcome = "exit_0"

\* A result that takes every subprocess that exited for a success.
SubprocessResult_AnyExit(outcome) ==
    IF outcome \in {"exit_0", "exit_1", "exit_255"} THEN "Ok"
    ELSE "CommandExecutionError"

\* The match on the io::Result and on status.success() of install and of
\* update_server.
SubprocessResult(outcome) ==
    IF outcome = "not_started" THEN "CommandExecutionError"
    ELSE IF success(outcome) THEN "Ok"
    ELSE "CommandExecutionError"

\* Instance::install: install::install, execute_mut, status.success().
Install ==
    /\ \E outcome \in Outcomes :
          lret' = [NoLaunch EXCEPT !.op = "install", !.outcome = outcome,
                                   !.program = PathOf(0, <<"steamcmd">>),
                                   !.spawned = (outcome # "not_started"),
                                   !.status = SubprocessResult(outcome)]
    /\ UNCHANGED env
    /\ UNCHANGED exceptCmd

\* Instance::update: update_server, Command::output, status.success().
Update ==
    /\ \E outcome \in Outcomes :
          lret' = [NoLaunch EXCEPT !.op = "update", !.outcome = outcome,
                                   !.program = PathOf(0, <<"steamcmd">>),
                                   !.spawned = (outcome # "not_started"),
                                   !.status = SubprocessResult(outcome)]
    /\ UNCHANGED env
    /\ UNCHANGED exceptCmd

CmdInit ==
    /\ EarlierIdle /\ TwoIdle /\ RegIdle /\ CronIdle
    /\ env \in Envs
    /\ lret = NoLaunch

CmdNext == StartDaemonized \/ Install \/ Update

CmdSpec == CmdInit /\ [][CmdNext]_vars

\* The Proton directories the patterns match, over all patterns.
AllProton == UNION {env.tools[i] : i \in PatternDirs}

\* A start that got as far as resolving the compatibility layer.
Resolved == lret.op = "start" /\ lret.force_windows /\ lret.status # "IoError"

C28_Original ==
    (Resolved /\ lret.compat.kind = "Proton" /\ Cardinality(AllProton) >= 2)
        => /\ lret.compat.path.name \in AllProton
           /\ \A n \in AllProton : ~LexLess(lret.compat.path.name, n)

\* C29: a start that needs a compatibility layer on a host that has none
\* returns the command execution error, has built no command and spawned
\* no process; and no start that needs a layer runs the executable itself.
C29_NoLayerNoLaunch ==
    /\ (Resolved /\ ~env.umu_run /\ ~env.umu_launcher /\ AllProton = {}
            /\ ~env.usr_proton /\ ~env.wine64 /\ ~env.wine)
          => /\ lret.status = "CommandExecutionError"
             /\ lret.program = NoPath
             /\ ~lret.spawned
    /\ (lret.op = "start" /\ lret.force_windows) => lret.program # GameExe

\* C29 witness: such a start on a host with nothing installed has failed.
C29_Witness ==
    /\ Resolved
    /\ env = NoEnv
    /\ lret.status = "CommandExecutionError"

\* C30: install and update return Ok exactly if the subprocess was started
\* and exited with status zero, and the command execution error otherwise.
C30_OkIffExitZero ==
    lret.op \in {"install", "update"} =>
        /\ lret.status = "Ok" <=> (lret.spawned /\ lret.outcome = "exit_0")
        /\ lret.status # "Ok" => lret.status = "CommandExecutionError"

\* C30 witness: an update whose subprocess exited with a status other than
\* zero returned the error.
C30_Witness ==
    /\ lret.op = "update"
    /\ lret.outcome = "exit_1"
    /\ lret.status = "CommandExecutionError"

(***************************************************************************)
(* Instance::stop: the order of the signal and of the removal              *)
(***************************************************************************)

\* The step is a call of stop() (alone or as the first half of restart())
\* that found a PID record pid() accepts: no process leaves the table in it.
StopByRecordStep ==
    /\ pc = "idle"
    /\ ~inRestart
    /\ PidOf(pidFile).ok
    /\ ret'.op = "stop"
    /\ \A p \in Pids : Alive(procs', p) = Alive(procs, p)
    /\ kills' = SetToBag({KillCall(PidOf(pidFile).pid)})

\* C31: a stop() whose signal reaches no process returns SignalError, and
\* the PID record is then the one it found; the record is removed only in a
\* stop() whose signal was delivered.
C31_RecordRemovedOnlyAfterDelivery ==
    [][StopByRecordStep =>
          LET targets == KillTargets(procs, PidOf(pidFile).pid)
          IN /\ targets = {} =>
                   /\ ret'.status = "SignalError"
                   /\ pidFile' = pidFile
                   /\ procs' = procs
             /\ pidFile' # pidFile =>
                   /\ targets # {}
                   /\ procs' = Deliver(procs, targets)
                   /\ pidFile' = NoFile
                   /\ ret'.status = "Ok"
             /\ ret'.status \in {"Ok", "SignalError", "IoError"}]_vars

\* C31 witness: stop() found the record of a process that no longer exists,
\* returned SignalError, and the record is still there.
C31_Witness ==
    /\ ret.op = "stop"
    /\ ret.status = "SignalError"
    /\ pidFile # NoFile
    /\ pidFile = ret.entry
    /\ PidOf(pidFile).ok
    /\ PidOf(pidFile).pid > 0
    /\ ~Alive(procs, PidOf(pidFile).pid)

(***************************************************************************)
(* process_rules: the matchers invoked behind the stopping rule            *)
(***************************************************************************)

\* C32: when an accepting stop rule was found for a line, no matcher of a
\* rule ranked after that rule was invoked for the line.
C32_Original ==
    line \in Lines =>
        \A s \in FirstStop : \A k \in 1..Len(calls) :
            calls[k] = s \/ Before(calls[k], s)

(***************************************************************************)
(* The fallback path of stop() and the supervisor itself                   *)
(***************************************************************************)

\* C33: the processes the fallback path of stop() interrupts never include
\* the process that executes stop().
C33_Original ==
    \A c \in BagToSet(kills) : c.call = "kill_with" => c.pid # SelfPid

(***************************************************************************)
(* restart(): the old process and the new one                              *)
(***************************************************************************)

\* The processes other than the supervisor that the signal calls of the
\* last stop() named.
Interrupted == {c.pid : c \in BagToSet(kills)} \cap (Pids \ {SelfPid})

\* The step is the start() of a restart() and spawns a process.
RestartSpawns ==
    /\ inRestart
    /\ rlog' = <<"stop", "start">>
    /\ \E p \in Pids : ~Alive(procs, p) /\ Alive(procs', p)

\* C34: when the start() of a restart() spawns the new process, every
\* process its stop() interrupted has exited.
C34_Original ==
    [][RestartSpawns => \A q \in Interrupted : ~Alive(procs, q)]_vars

(***************************************************************************)
(* The tailing loop and a line written in two parts                        *)
(***************************************************************************)

\* The evaluations that hold the text of line i.
ReadsOfText(i) == {k \in 1..Len(reads) : \E n \in 1..Len(reads[k]) : reads[k][n] = TextByte(i)}

\* The evaluations that hold the terminator of line i.
ReadsOfNewline(i) == {k \in 1..Len(reads) : \E n \in 1..Len(reads[k]) : reads[k][n] = Newline(i)}

\* C35: in a file that is never recreated, the text of a line is not
\* evaluated without its terminator, the terminator not without the text,
\* and a line whose terminator the monitor has read was evaluated exactly
\* once, as the whole line.
C35_Original ==
    truncs = 0 =>
        \A i \in 1..(nextId - 1) :
            /\ ReadsOfText(i) = ReadsOfNewline(i)
            /\ Cardinality(ReadsOfText(i)) <= 1
            /\ \A k \in ReadsOfText(i) : reads[k] = <<TextByte(i), Newline(i)>>

(***************************************************************************)
(* The tailing loop and a file that grew back after it was recreated       *)
(***************************************************************************)

\* The lines whose text is in the file at the path.
LinesOnDisk == {i \in 1..(nextId - 1) : \E n \in 1..Len(disk) : disk[n] = TextByte(i)}

\* The reader has nothing buffered and its offset is the length of the file:
\* its next read_line returns Ok(0) and the truncation check finds nothing.
ReaderAtEnd == mpc = "tail" /\ ~rdStale /\ rdBuf = <<>> /\ rdPos = Len(disk)

\* C36: after the file was recreated, a reader that stands at the end of the
\* file has evaluated, exactly once, the text of every line in the file that
\* was written after a line it evaluated before.
C36_Original ==
    (ReaderAtEnd /\ truncs >= 1) =>
        \A i \in LinesOnDisk :
            (\E j \in 1..(i - 1) : ReadsOfText(j) # {})
                => Cardinality(ReadsOfText(i)) = 1

(***************************************************************************)
(* The default rules and the rules an app adds behind them                 *)
(***************************************************************************)

\* Rule i of the evaluated copy was added by the app, behind the default
\* rules, with no ranking given.
AppRuleByDefaultRanking(i) ==
    /\ i \in (Len(LogRules_default) + 1)..Len(snap)
    /\ snap[i].ranking = default_ranking(i - 1)

Begins(t, op) == tasks[t].pc # op /\ tasks'[t].pc = op

\* C38: an auto-update task begins stop() only when update_available() has
\* just returned true, update() only when stop() has just returned Ok and
\* start() only when update() has just returned Ok; when update_available()
\* returns false or stop() or update() fails, the task ends, and no ended
\* task began start() without having begun update() and stop() before it.
C38_EachStepOnlyAfterSuccess ==
    /\ [][\A t \in TaskIds :
            tasks'[t].kind = "auto-update" =>
              /\ Begins(t, "update_available") => tasks[t].pc = "wait"
              /\ Begins(t, "stop") =>
                   tasks[t].pc = "update_available" /\ tasks'[t].res = "true"
              /\ Begins(t, "update") =>
                   tasks[t].pc = "stop" /\ tasks'[t].res = "Ok"
              /\ Begins(t, "start") =>
                   tasks[t].pc = "update" /\ tasks'[t].res = "Ok"
              /\ (tasks[t].pc \in {"update_available", "stop", "update"}
                    /\ tasks'[t].res \in {"false", "Err"}
                    /\ tasks'[t] # tasks[t]) => tasks'[t].pc = "done"]_vars
    /\ [](\A t \in TaskIds :
            (tasks[t].kind = "auto-update" /\ tasks[t].res \in {"false", "Err"}) =>
                /\ tasks[t].pc = "done"
                /\ ~\E k \in 1..Len(opLog) : opLog[k] = [task |-> t, op |-> "start"])

\* C38 witness: one auto-update task went through stop(), update() and
\* start(); another ended when its update() failed, without a start().
C38_Witness ==
    \E t, u \in TaskIds :
      /\ tasks[t].kind = "auto-update" /\ tasks[t].pc = "done" /\ tasks[t].res = "Ok"
      /\ \E k \in 1..Len(opLog) : opLog[k] = [task |-> t, op |-> "start"]
      /\ tasks[u].kind = "auto-update" /\ tasks[u].pc = "done" /\ tasks[u].res = "Err"
      /\ \E k \in 1..Len(opLog) : opLog[k] = [task |-> u, op |-> "update"]
      /\ ~\E k \in 1..Len(opLog) : opLog[k] = [task |-> u, op |-> "start"]

(***************************************************************************)
(* The calls of one job's action, one after the other                      *)
(***************************************************************************)

\* This step is a call of the action of job j.
Invokes(j) == Len(fires') = Len(fires) + 1 /\ fires'[Len(fires')].job = j

\* C39: the action of a job is called only by its loop while no call of it
\* is in progress, and the call is in progress until it returns or panics;
\* the call in progress is the one for the latest occurrence invoked, and
\* the occurrences of a job are invoked in the order of the schedule.
C39_InvocationsNeverOverlap ==
    /\ [][\A j \in Jobs :
            /\ Invokes(j) => loops[j].pc = "sleeping" /\ loops'[j].pc = "in_job"
            /\ (loops[j].pc = "in_job" /\ loops'[j] # loops[j]) =>
                  /\ fires' = fires
                  /\ loops'[j].pc \in {"sleeping", "dead"}]_vars
    /\ [](\A j \in Jobs :
            LET fj == FiresOf(j)
            IN /\ loops[j].pc = "in_job" =>
                     Len(fj) > 0 /\ fj[Len(fj)].occ = loops[j].due
               /\ \A k \in 2..Len(fj) : fj[k - 1].occ < fj[k].occ)

\* C39 witness: the second call of a job's action is in progress after the
\* first returned, while the task the first call spawned has not run yet.
C39_Witness ==
    \E j \in Jobs :
      /\ loops[j].pc = "in_job"
      /\ Len(FiresOf(j)) = 2
      /\ FiresOf(j)[1].occ < FiresOf(j)[2].occ
      /\ acts[j] > 0

====
